---- MODULE Spec2Model ----
(***************************************************************************)
(* Model of aws-cf-terraform-migrator:                                     *)
(*   - ImportManager (imports.py): execute_import_script, the sequential   *)
(*     and the thread-pool batch executors, the state backup;              *)
(*   - ConversionEngine (conversion.py): convert_template and the          *)
(*     per-resource conversion.                                            *)
(***************************************************************************)
EXTENDS Integers, Sequences, FiniteSets, TLC

\* ------------------------------------------------------------------ bounds
MaxCmds == 3
MaxBackupCmds == 2
MaxRetriesCfg == 2
MaxWorkersCfg == 2
MaxFails == 3
MaxResources == 3
MaxPhaseResources == 1
MaxNest == 1
MaxThreads == 2
MaxCalls == 3
MaxScriptResources == 2
MaxScriptLines == 2

\* ------------------------------------------------------------ import state
VARIABLES
  batch_expired,    \* environment: the overall deadline the caller has for the batch has passed
  terraform_dir_exists, \* environment: does terraform_dir exist at construction
  manager,          \* ImportManager fields set by __init__
  state_files,      \* state files present in terraform_dir
  backup_files,     \* files copied into terraform_dir/state_backups
  import_commands,  \* commands parsed from the script
  failPlan,         \* environment: failing launches of a command before it succeeds
  failKind,         \* environment: the way a failing launch fails
  tries,            \* launches of each command so far
  summary,          \* ImportSummary being built / returned
  pc,               \* position of the thread running execute_import_script
  cur,              \* index of the sequential loop
  pending,          \* result of a failed first attempt awaiting its retry, or NoResult
  queue,            \* thread pool work queue (command indices)
  workers,          \* thread pool workers
  futures,          \* future of each submitted command
  collected         \* futures already yielded by as_completed

\* -------------------------------------------------------- conversion state
VARIABLES
  engine,              \* ConversionEngine fields set by __init__
  template,            \* the CloudFormation template given to convert_template
  result,              \* the ConversionResult being built / returned
  cpc,                 \* position of convert_template
  ridx,                \* index of the loop over template['Resources']
  terraform_resources, \* the local dict terraform_resources
  converted            \* logical ids whose conversion returned a value, in loop order

\* ---------------------------------------------------------- resolver state
VARIABLES
  func_handler,        \* IntrinsicFunctionHandler fields set by __init__
  context,             \* the context given to process_value
  expression,          \* the value given to process_value
  resolved,            \* what the call gave: a value or an exception
  rpc                  \* position of the caller of process_value

\* ------------------------------------------- working directory state
VARIABLES
  os_cwd,              \* the working directory of the process (os.getcwd / os.chdir)
  start_cwd,           \* the working directory before the batch started
  cwd_parallel,        \* manager.parallel of the batch
  cwd_threads,         \* the threads inside _execute_terraform_command
  cwd_calls,           \* the cwd each call of subprocess.run was launched in, in launch order
  cwd_todo             \* calls of _execute_terraform_command not yet started

cwdVars == <<os_cwd, start_cwd, cwd_parallel, cwd_threads, cwd_calls, cwd_todo>>

\* ------------------------------------------------- import script state
VARIABLES
  resources,           \* the resources given to generate_import_script, in dict order
  script,              \* the lines of the import script file
  parsed,              \* what _parse_import_script returned
  spc                  \* position of the caller

scriptVars == <<resources, script, parsed, spc>>

resolveVars == <<func_handler, context, expression, resolved, rpc>>

convVars == <<engine, template, result, cpc, ridx, terraform_resources, converted>>

importVars == <<batch_expired, terraform_dir_exists, manager, state_files, backup_files, import_commands, failPlan, failKind,
                tries, summary, pc, cur, pending, queue, workers, futures,
                collected>>

vars == <<importVars, convVars, resolveVars, cwdVars, scriptVars>>

StateFiles == {"terraform.tfstate", "terraform.tfstate.backup"}
BackupFailures == {"none", "mkdir", "terraform.tfstate", "terraform.tfstate.backup"}
FailKinds == {"nonzero", "timeout", "oserror"}
NoResult == [none |-> TRUE]

NumCmds == Len(import_commands)
CmdIdx == 1..NumCmds

\* a parsed command: the line, its address token and its identifier token
CmdInfo(i) == [command |-> <<"terraform", "import", <<"addr", i>>, <<"id", i>>>>,
               address |-> <<"addr", i>>,
               id      |-> <<"id", i>>]

EmptySummary(n) == [total_imports |-> n, successful_imports |-> 0,
                    failed_imports |-> 0, results |-> <<>>, errors |-> <<>>]

\* ----------------------------------------------------- _create_state_backup
\* files copied by the loop over state_files before the step named by failAt
\* raises (mkdir raises before any copy; a copy raises at its own file, and
\* only a file that exists is copied)
BackupCopiedFirstOnly(existing, failAt) ==
  IF failAt = "mkdir" \/ (failAt = "terraform.tfstate" /\ failAt \in existing)
    THEN {}
    ELSE existing \cap {"terraform.tfstate"}

BackupCopied(existing, failAt) ==
  CASE failAt = "mkdir" -> {}
    [] failAt = "terraform.tfstate" /\ failAt \in existing -> {}
    [] failAt = "terraform.tfstate.backup" /\ failAt \in existing ->
         existing \cap {"terraform.tfstate"}
    [] OTHER -> existing \cap StateFiles

\* does the backup raise: mkdir always can, a copy only if the file exists
BackupRaises(existing, failAt) ==
  \/ failAt = "mkdir"
  \/ failAt \in StateFiles /\ failAt \in existing

\* ---------------------------------------------------- _execute_single_import
\* the error text when subprocess.TimeoutExpired gets no handler of its own
ErrorMessageNoTimeout(outcome) ==
  CASE outcome = "ok"      -> "None"
    [] outcome = "nonzero" -> "stderr"
    [] OTHER               -> "Failed to execute command"

\* lines 619-650 and 603-609: stderr of a non-zero exit, or the text of the
\* exception raised for a timeout or for any other failure to run
ErrorMessage(outcome) ==
  CASE outcome = "ok"      -> "None"
    [] outcome = "nonzero" -> "stderr"
    [] outcome = "timeout" -> "Command timed out"
    [] OTHER               -> "Failed to execute command"

ExecuteSingleImportNoCatch(cmd_info, retry_count, outcome) ==
  [raised |-> (outcome \in {"timeout", "oserror"}),
   result |-> [resource_address |-> cmd_info.address,
               resource_id      |-> cmd_info.id,
               success          |-> (outcome = "ok"),
               error_message    |-> ErrorMessage(outcome),
               retry_count      |-> retry_count]]

ExecuteSingleImport(cmd_info, retry_count, outcome) ==
  [raised |-> FALSE,
   result |-> [resource_address |-> cmd_info.address,
               resource_id      |-> cmd_info.id,
               success          |-> (outcome = "ok"),
               error_message    |-> ErrorMessage(outcome),
               retry_count      |-> retry_count]]

\* outcomes the environment can give to the k-th launch of command i
OutcomesOfTry(i, k) == IF k <= failPlan[i] THEN {failKind} ELSE {"ok"}
Outcomes(i) == OutcomesOfTry(i, tries[i] + 1)

\* ------------------------------------------------- summary bookkeeping
AppendResultOverwrite(results, r) ==
  IF r.retry_count > 0 /\ results # <<>>
    THEN [results EXCEPT ![Len(results)] = r]
    ELSE Append(results, r)

AppendResult(results, r) == Append(results, r)

\* lines 531-536 / 575-580: record a first attempt
RecordAttempt(s, ret) ==
  IF ret.raised
    THEN [s EXCEPT !.errors = Append(@, "Exception during import"),
                   !.failed_imports = @ + 1]
    ELSE IF ret.result.success
      THEN [s EXCEPT !.results = AppendResult(@, ret.result),
                     !.successful_imports = @ + 1]
      ELSE [s EXCEPT !.results = AppendResult(@, ret.result),
                     !.failed_imports = @ + 1]

\* line 539
ShouldRetry(first) ==
  manager.retry_failed /\ first.retry_count < manager.max_retries

\* lines 541-548: record the retry of a failed first attempt
RecordRetry(s, ret) ==
  IF ret.raised
    THEN [s EXCEPT !.errors = Append(@, "Exception during import"),
                   !.failed_imports = @ + 1]
    ELSE IF ret.result.success
      THEN [s EXCEPT !.results = AppendResult(@, ret.result),
                     !.successful_imports = @ + 1,
                     !.failed_imports = @ - 1]
      ELSE [s EXCEPT !.results = AppendResult(@, ret.result),
                     !.failed_imports = @ + 1]


\* =============================================================== conversion
\* lower-casing of the names used by the templates (str.lower)
LowerTable ==
  [MyVPC |-> "myvpc", myvpc |-> "myvpc", WebRule |-> "webrule",
   NestedStack |-> "nestedstack", EnvParam |-> "envparam",
   RegionMap |-> "regionmap", IsProd |-> "isprod", VpcId |-> "vpcid",
   MySubnet |-> "mysubnet", MyDB |-> "mydb", Custom |-> "custom", Broken |-> "broken",
   Shared |-> "shared", Undeclared |-> "undeclared", Unknown |-> "unknown",
   Env |-> "env", CidrBlock |-> "cidrblock", AvailabilityZone |-> "availabilityzone",
   EnableDnsSupport |-> "enablednssupport", Name |-> "name", AMI |-> "ami",
   IpProtocol |-> "ipprotocol", FromPort |-> "fromport", ToPort |-> "toport",
   CidrIp |-> "cidrip", MyAttachment |-> "myattachment", MyRoute |-> "myroute",
   MyTopic |-> "mytopic", MyAssociation |-> "myassociation"]
\* a text outside the table holds no upper-case letter, but for the dotted
\* attribute path
Lower(s) ==
  CASE s \in DOMAIN LowerTable -> LowerTable[s]
    [] s = "Endpoint.Address" -> "endpoint.address"
    [] OTHER -> s

\* _generate_resource_name: CamelCase to snake_case
SnakeTable ==
  [MyVPC |-> "my_vpc", myvpc |-> "myvpc", WebRule |-> "web_rule",
   NestedStack |-> "nested_stack"]
GenerateResourceName(logical_id) == SnakeTable[logical_id]

LogicalIds == <<"MyVPC", "myvpc", "WebRule", "NestedStack">>
None == "None"

\* ResourceMapper.RESOURCE_TYPE_MAPPING, on the source types of the templates
GetTerraformType(cf_type) ==
  CASE cf_type = "AWS::EC2::VPC" -> "aws_vpc"
    [] cf_type = "AWS::EC2::Instance" -> "aws_instance"
    [] cf_type = "AWS::EC2::Subnet" -> "aws_subnet"
    [] cf_type = "AWS::EC2::SecurityGroup" -> "aws_security_group"
    [] cf_type = "AWS::S3::Bucket" -> "aws_s3_bucket"
    [] cf_type = "AWS::RDS::DBInstance" -> "aws_db_instance"
    [] cf_type = "AWS::EC2::SecurityGroupIngress" -> "aws_security_group_rule"
    [] cf_type = "AWS::EC2::SecurityGroupEgress" -> "aws_security_group_rule"
    [] cf_type = "AWS::CloudFormation::Stack" -> "terraform_module"
    [] cf_type = "AWS::EC2::VPCGatewayAttachment" -> "aws_internet_gateway_attachment"
    [] cf_type = "AWS::EC2::SubnetRouteTableAssociation" -> "aws_route_table_association"
    [] cf_type = "AWS::EC2::Route" -> "aws_route"
    [] cf_type = "AWS::SNS::Topic" -> "aws_sns_topic"
    [] OTHER -> None

\* the keys of import_templates in ConversionEngine._generate_import_command
ConverterImportTypes ==
  {"aws_instance", "aws_vpc", "aws_subnet", "aws_security_group", "aws_s3_bucket",
   "aws_db_instance", "aws_iam_role", "aws_lambda_function"}

GenerateImportCommand(terraform_type, resource_name) ==
  IF terraform_type \in ConverterImportTypes
    THEN <<[address |-> <<terraform_type, resource_name>>, id |-> "PHYSICAL_ID"]>>
    ELSE <<>>

ResourceName(logical_id) ==
  IF engine.preserve_names THEN Lower(logical_id) ELSE GenerateResourceName(logical_id)

\* ============================================================ expressions
\* A value of a template (IntrinsicFunctionHandler works on the parsed
\* YAML/JSON): a string, an integer, a list of values, or a mapping whose
\* entries are kept in insertion order.  The text of a string is a sequence
\* of pieces, so that formatting is concatenation; a placeholder ${Name} of
\* a template string is the three pieces "${", "Name", "}".
TextNode(text) == [kind |-> "str", s |-> text, items |-> <<>>]
Str(a) == TextNode(<<a>>)
IntNode(a) == [kind |-> "int", s |-> <<a>>, items |-> <<>>]
ListNode(xs) == [kind |-> "list", s |-> <<>>, items |-> xs]
Entry(k, v) == [kind |-> "entry", s |-> <<k>>, items |-> <<v>>]
MapNode(es) == [kind |-> "map", s |-> <<>>, items |-> es]
NoValue == [kind |-> "none", s |-> <<>>, items |-> <<>>]

IsStr(n) == n.kind = "str"
IsInt(n) == n.kind = "int"
IsList(n) == n.kind = "list"
IsMap(n) == n.kind = "map"
Key(e) == e.s[1]
Val(e) == e.items[1]
Keys(n) == {Key(n.items[i]) : i \in DOMAIN n.items}
\* a string or an integer can be a dict key or be looked up in a dict; a list
\* or a mapping is unhashable (TypeError)
Hashable(n) == n.kind \in {"str", "int"}
\* the name a string spells, when the string is a single name
NameOf(n) == n.s[1]

\* dict[key] on the entries of a mapping
DictHas(n, k) == IsMap(n) /\ k \in Keys(n)
DictGet(n, k) == Val(n.items[CHOOSE i \in DOMAIN n.items : Key(n.items[i]) = k])
\* dict[key] = v: the value of an existing key is replaced in place, a new
\* key is appended
DictSet(es, k, v) ==
  IF \E i \in DOMAIN es : Key(es[i]) = k
    THEN [i \in DOMAIN es |-> IF Key(es[i]) = k THEN Entry(k, v) ELSE es[i]]
    ELSE Append(es, Entry(k, v))
\* dict.pop(key) for a key that is present
DictPop(es, k) == SelectSeq(es, LAMBDA e : Key(e) # k)

\* sep.join(parts) on texts
RECURSIVE JoinText(_, _)
JoinText(parts, sep) ==
  IF parts = <<>> THEN <<>>
  ELSE IF Len(parts) = 1 THEN parts[1]
  ELSE parts[1] \o <<sep>> \o JoinText(Tail(parts), sep)

\* str(value) and repr(value), as the f-strings format a value
RECURSIVE StrOf(_), ReprOf(_)
StrOf(n) ==
  CASE n.kind \in {"str", "int"} -> n.s
    [] n.kind = "list" ->
         <<"[">> \o JoinText([i \in DOMAIN n.items |-> ReprOf(n.items[i])], ", ") \o <<"]">>
    [] n.kind = "map" ->
         <<"{">>
         \o JoinText([i \in DOMAIN n.items |->
                        <<"'", Key(n.items[i]), "'", ": ">> \o ReprOf(Val(n.items[i]))], ", ")
         \o <<"}">>
ReprOf(n) == IF IsStr(n) THEN <<"'">> \o n.s \o <<"'">> ELSE StrOf(n)

\* number of characters of the strings the inputs give where a list of
\* arguments is expected
CharLen(text) ==
  CASE text = <<"MyVPC.CidrBlock">> -> 15
    [] text = <<"">> -> 0

\* the outcome of a call: a value, or an exception; logged counts the calls
\* of logger.warning made on the way
Gives(v, n) == [raised |-> FALSE, exc |-> "None", value |-> v, logged |-> n]
Throws(e, n) == [raised |-> TRUE, exc |-> e, value |-> NoValue, logged |-> n]

\* len(args): a list or a mapping has a length, a string its number of
\* characters, an integer none (TypeError)
Arity(args) ==
  CASE IsInt(args) -> -1
    [] IsStr(args) -> CharLen(args.s)
    [] OTHER -> Len(args.items)
\* a, b = args: the items of a list, the keys of a mapping
Unpack(args) ==
  IF IsMap(args) THEN [i \in DOMAIN args.items |-> Str(Key(args.items[i]))]
  ELSE args.items

\* keys that start with 'Fn::' (str.startswith, line 250)
StartsWithFn(k) ==
  k \in {"Fn::GetAtt", "Fn::Join", "Fn::Sub", "Fn::Select", "Fn::Split", "Fn::Base64",
         "Fn::GetAZs", "Fn::FindInMap", "Fn::If", "Fn::Transform", "Fn::ImportValue"}
\* names that start with 'AWS::' (str.startswith, line 425)
StartsWithAws(k) ==
  k \in {"AWS::Region", "AWS::AccountId", "AWS::StackName", "AWS::StackId",
         "AWS::Partition", "AWS::NoValue"}

\* aws_pseudo_params of _handle_ref, lines 327-333
RefPseudoParams(k) ==
  CASE k = "AWS::Region" -> "data.aws_region.current.name"
    [] k = "AWS::AccountId" -> "data.aws_caller_identity.current.account_id"
    [] k = "AWS::StackName" -> "var.stack_name"
    [] k = "AWS::StackId" -> "var.stack_id"
    [] k = "AWS::Partition" -> "data.aws_partition.current.partition"
    [] OTHER -> None
\* aws_pseudo_params of _handle_sub, lines 426-430
SubPseudoParams(k) ==
  CASE k = "AWS::Region" -> "data.aws_region.current.name"
    [] k = "AWS::AccountId" -> "data.aws_caller_identity.current.account_id"
    [] k = "AWS::StackName" -> "var.stack_name"
    [] OTHER -> None

\* attribute_mappings of _handle_get_att, lines 348-370
AttributeMappingTypes ==
  {"AWS::EC2::Instance", "AWS::EC2::VPC", "AWS::S3::Bucket", "AWS::RDS::DBInstance"}
AttributeMappings(cf_type, attribute) ==
  CASE cf_type = "AWS::EC2::Instance" /\ attribute = "PrivateIp" -> "private_ip"
    [] cf_type = "AWS::EC2::Instance" /\ attribute = "PublicIp" -> "public_ip"
    [] cf_type = "AWS::EC2::Instance" /\ attribute = "PrivateDnsName" -> "private_dns"
    [] cf_type = "AWS::EC2::Instance" /\ attribute = "PublicDnsName" -> "public_dns"
    [] cf_type = "AWS::EC2::Instance" /\ attribute = "AvailabilityZone" -> "availability_zone"
    [] cf_type = "AWS::EC2::VPC" /\ attribute = "CidrBlock" -> "cidr_block"
    [] cf_type = "AWS::EC2::VPC" /\ attribute = "DefaultNetworkAcl" -> "default_network_acl_id"
    [] cf_type = "AWS::EC2::VPC" /\ attribute = "DefaultSecurityGroup" ->
         "default_security_group_id"
    [] cf_type = "AWS::S3::Bucket" /\ attribute = "Arn" -> "arn"
    [] cf_type = "AWS::S3::Bucket" /\ attribute = "DomainName" -> "bucket_domain_name"
    [] cf_type = "AWS::S3::Bucket" /\ attribute = "RegionalDomainName" ->
         "bucket_regional_domain_name"
    [] cf_type = "AWS::RDS::DBInstance" /\ attribute = "Endpoint.Address" -> "endpoint"
    [] cf_type = "AWS::RDS::DBInstance" /\ attribute = "Endpoint.Port" -> "port"
    [] OTHER -> Lower(attribute)

\* context.get('resources', {}): the declared resources, each with the shape
\* of its entry and its Type (None when the entry has none)
IsResource(ctx, n) == IsStr(n) /\ \E r \in ctx.resources : r.name = NameOf(n)
ResourceInfo(ctx, n) == CHOOSE r \in ctx.resources : r.name = NameOf(n)
\* resource_info.get('Type', '')
TypeOf(info) == IF info.Type = None THEN "" ELSE info.Type

RECURSIVE ProcessValue(_, _, _), ProcessAll(_, _, _), HandleIntrinsicFunction(_, _, _, _),
          HandleRef(_, _, _), HandleGetAtt(_, _, _), HandleJoin(_, _, _),
          HandleSub(_, _, _), HandleSelect(_, _, _), HandleSplit(_, _, _),
          HandleBase64(_, _, _), HandleGetAzs(_, _, _), HandleFindInMap(_, _, _),
          HandleIf(_, _, _), ReplaceVars(_, _, _, _)

\* the values of a list or of the entries of a mapping, resolved left to
\* right up to the first one that raises; value holds the resolved list
ProcessAll(h, ctx, xs) ==
  IF xs = <<>> THEN Gives(ListNode(<<>>), 0)
  ELSE LET first == ProcessValue(h, ctx, xs[1]) IN
    IF first.raised THEN first
    ELSE LET rest == ProcessAll(h, ctx, Tail(xs)) IN
      IF rest.raised THEN Throws(rest.exc, first.logged + rest.logged)
      ELSE Gives(ListNode(<<first.value>> \o rest.value.items),
                 first.logged + rest.logged)

\* lines 243-259
ProcessValue(h, ctx, value) ==
  IF IsMap(value)
    THEN IF Len(value.items) = 1
              /\ (StartsWithFn(Key(value.items[1])) \/ Key(value.items[1]) = "Ref")
      THEN HandleIntrinsicFunction(h, ctx, Key(value.items[1]), Val(value.items[1]))
      ELSE LET vals == ProcessAll(h, ctx, [i \in DOMAIN value.items |-> Val(value.items[i])]) IN
        IF vals.raised THEN vals
        ELSE Gives(MapNode([i \in DOMAIN value.items |->
                              Entry(Key(value.items[i]), vals.value.items[i])]),
                   vals.logged)
  ELSE IF IsList(value) THEN ProcessAll(h, ctx, value.items)
  ELSE Gives(value, 0)

\* lines 261-296
HandleIntrinsicFunction(h, ctx, func_name, func_args) ==
  CASE func_name = "Ref" -> HandleRef(h, ctx, func_args)
    [] func_name = "Fn::GetAtt" -> HandleGetAtt(h, ctx, func_args)
    [] func_name = "Fn::Join" -> HandleJoin(h, ctx, func_args)
    [] func_name = "Fn::Sub" -> HandleSub(h, ctx, func_args)
    [] func_name = "Fn::Select" -> HandleSelect(h, ctx, func_args)
    [] func_name = "Fn::Split" -> HandleSplit(h, ctx, func_args)
    [] func_name = "Fn::Base64" -> HandleBase64(h, ctx, func_args)
    [] func_name = "Fn::GetAZs" -> HandleGetAzs(h, ctx, func_args)
    [] func_name = "Fn::FindInMap" -> HandleFindInMap(h, ctx, func_args)
    [] func_name = "Fn::If" -> HandleIf(h, ctx, func_args)
    [] OTHER ->
         Gives(TextNode(<<"# TODO: Convert ", func_name, "(">> \o StrOf(func_args) \o <<")">>), 1)

\* lines 298-338
HandleRef(h, ctx, resource_name) ==
  LET unresolved ==
        IF IsStr(resource_name) /\ RefPseudoParams(NameOf(resource_name)) # None
          THEN Gives(Str(RefPseudoParams(NameOf(resource_name))), 0)
          ELSE Gives(TextNode(<<"# TODO: Resolve reference to ">> \o StrOf(resource_name)), 0)
  IN
  IF ~Hashable(resource_name) THEN Throws("TypeError", 0)
  ELSE IF IsStr(resource_name) /\ NameOf(resource_name) \in h.parameters
    THEN Gives(TextNode(<<"var.", Lower(NameOf(resource_name))>>), 0)
  ELSE IF IsResource(ctx, resource_name)
    THEN LET resource_info == ResourceInfo(ctx, resource_name) IN
      IF resource_info.shape # "mapping" THEN Throws("AttributeError", 0)
      ELSE LET resource_type == TypeOf(resource_info)
               terraform_type ==
                 CASE resource_type = "AWS::EC2::Instance" -> "aws_instance"
                   [] resource_type = "AWS::EC2::VPC" -> "aws_vpc"
                   [] resource_type = "AWS::EC2::Subnet" -> "aws_subnet"
                   [] resource_type = "AWS::EC2::SecurityGroup" -> "aws_security_group"
                   [] resource_type = "AWS::S3::Bucket" -> "aws_s3_bucket"
                   [] OTHER -> GetTerraformType(resource_type)
           IN IF terraform_type # None
                THEN Gives(TextNode(<<terraform_type, ".", Lower(NameOf(resource_name)), ".id">>), 0)
                ELSE unresolved
  ELSE unresolved

\* lines 340-381
HandleGetAtt(h, ctx, args) ==
  IF IsInt(args) THEN Throws("TypeError", 0)
  ELSE IF Arity(args) # 2
    THEN Gives(TextNode(<<"# TODO: Invalid GetAtt arguments: ">> \o StrOf(args)), 0)
  ELSE
    LET resource_name == Unpack(args)[1]
        attribute == Unpack(args)[2]
        unresolved ==
          Gives(TextNode(<<"# TODO: GetAtt ">> \o StrOf(resource_name) \o <<".">>
                         \o StrOf(attribute)), 0)
    IN
    IF ~Hashable(resource_name) THEN Throws("TypeError", 0)
    ELSE IF IsResource(ctx, resource_name)
      THEN LET resource_info == ResourceInfo(ctx, resource_name) IN
        IF resource_info.shape # "mapping" THEN Throws("AttributeError", 0)
        ELSE LET resource_type == TypeOf(resource_info)
                 terraform_type == GetTerraformType(resource_type)
             IN IF terraform_type # None /\ resource_type \in AttributeMappingTypes
                  THEN IF ~IsStr(attribute) THEN Throws("AttributeError", 0)
                       ELSE Gives(TextNode(<<terraform_type, ".", Lower(NameOf(resource_name)), ".",
                                             AttributeMappings(resource_type, NameOf(attribute))>>), 0)
                  ELSE unresolved
    ELSE unresolved

\* lines 383-398
HandleJoin(h, ctx, args) ==
  IF IsInt(args) THEN Throws("TypeError", 0)
  ELSE IF Arity(args) # 2
    THEN Gives(TextNode(<<"# TODO: Invalid Join arguments: ">> \o StrOf(args)), 0)
  ELSE
    LET delimiter == Unpack(args)[1]
        values == Unpack(args)[2]
    IN
    \* for value in values: the items of a list, the keys of a mapping
    IF ~(IsList(values) \/ IsMap(values)) THEN Throws("TypeError", 0)
    ELSE LET processed == ProcessAll(h, ctx, Unpack(values)) IN
      IF processed.raised THEN processed
      ELSE LET processed_values ==
                 [i \in DOMAIN processed.value.items |->
                    IF IsStr(processed.value.items[i])
                      THEN <<"\"">> \o processed.value.items[i].s \o <<"\"">>
                      ELSE StrOf(processed.value.items[i])]
           IN Gives(TextNode(<<"join(\"">> \o StrOf(delimiter) \o <<"\", [">>
                             \o JoinText(processed_values, ", ") \o <<"])">>),
                    processed.logged)

\* re.sub(r'\$\{([^}]+)\}', replace_var, template_string), lines 417-445;
\* value.raised is set when a replacement raises
ReplaceVars(h, ctx, processed_vars, text) ==
  IF text = <<>> THEN Gives(TextNode(<<>>), 0)
  ELSE IF Len(text) >= 3 /\ text[1] = "${" /\ text[3] = "}"
    THEN
      LET var_name == text[2]
          replaced ==
            IF DictHas(processed_vars, var_name)
              THEN Gives(TextNode(<<"${">> \o StrOf(DictGet(processed_vars, var_name))
                                  \o <<"}">>), 0)
            ELSE IF StartsWithAws(var_name) /\ SubPseudoParams(var_name) # None
              THEN Gives(TextNode(<<"${", SubPseudoParams(var_name), "}">>), 0)
            ELSE IF var_name \in h.parameters
              THEN Gives(TextNode(<<"${", "var.", Lower(var_name), "}">>), 0)
            ELSE IF IsResource(ctx, Str(var_name))
              THEN LET ref == HandleRef(h, ctx, Str(var_name)) IN
                IF ref.raised THEN ref
                ELSE Gives(TextNode(<<"${">> \o ref.value.s \o <<"}">>), 0)
            ELSE Gives(TextNode(<<"${", var_name, "}">>), 0)
          rest == ReplaceVars(h, ctx, processed_vars, SubSeq(text, 4, Len(text)))
      IN IF replaced.raised THEN replaced
         ELSE IF rest.raised THEN rest
         ELSE Gives(TextNode(replaced.value.s \o rest.value.s), 0)
  ELSE LET rest == ReplaceVars(h, ctx, processed_vars, Tail(text)) IN
    IF rest.raised THEN rest
    ELSE Gives(TextNode(<<text[1]>> \o rest.value.s), 0)

\* lines 400-446
HandleSub(h, ctx, args) ==
  IF ~(IsStr(args) \/ (IsList(args) /\ Len(args.items) = 2))
    THEN Gives(TextNode(<<"# TODO: Invalid Sub arguments: ">> \o StrOf(args)), 0)
  ELSE
    LET template_string == IF IsStr(args) THEN args ELSE args.items[1]
        variables == IF IsStr(args) THEN MapNode(<<>>) ELSE args.items[2]
    IN
    IF ~IsMap(variables) THEN Throws("AttributeError", 0)
    ELSE LET vals == ProcessAll(h, ctx, [i \in DOMAIN variables.items |->
                                           Val(variables.items[i])]) IN
      IF vals.raised THEN vals
      ELSE IF ~IsStr(template_string) THEN Throws("TypeError", vals.logged)
      ELSE LET processed_vars ==
                 MapNode([i \in DOMAIN variables.items |->
                            Entry(Key(variables.items[i]), vals.value.items[i])])
               replaced == ReplaceVars(h, ctx, processed_vars, template_string.s)
           IN IF replaced.raised THEN Throws(replaced.exc, vals.logged)
              ELSE Gives(TextNode(<<"\"">> \o replaced.value.s \o <<"\"">>), vals.logged)

\* lines 448-456
HandleSelect(h, ctx, args) ==
  IF IsInt(args) THEN Throws("TypeError", 0)
  ELSE IF Arity(args) # 2
    THEN Gives(TextNode(<<"# TODO: Invalid Select arguments: ">> \o StrOf(args)), 0)
  ELSE LET index == Unpack(args)[1]
           processed_array == ProcessValue(h, ctx, Unpack(args)[2])
       IN IF processed_array.raised THEN processed_array
          ELSE Gives(TextNode(<<"element(">> \o StrOf(processed_array.value) \o <<", ">>
                              \o StrOf(index) \o <<")">>), processed_array.logged)

\* lines 458-466
HandleSplit(h, ctx, args) ==
  IF IsInt(args) THEN Throws("TypeError", 0)
  ELSE IF Arity(args) # 2
    THEN Gives(TextNode(<<"# TODO: Invalid Split arguments: ">> \o StrOf(args)), 0)
  ELSE LET delimiter == Unpack(args)[1]
           processed_string == ProcessValue(h, ctx, Unpack(args)[2])
       IN IF processed_string.raised THEN processed_string
          ELSE Gives(TextNode(<<"split(\"">> \o StrOf(delimiter) \o <<"\", ">>
                              \o StrOf(processed_string.value) \o <<")">>),
                     processed_string.logged)

\* lines 468-471
HandleBase64(h, ctx, value) ==
  LET processed_value == ProcessValue(h, ctx, value) IN
    IF processed_value.raised THEN processed_value
    ELSE Gives(TextNode(<<"base64encode(">> \o StrOf(processed_value.value) \o <<")">>),
               processed_value.logged)

\* lines 473-479
HandleGetAzs(h, ctx, region) ==
  IF region = Str("") THEN Gives(Str("data.aws_availability_zones.available.names"), 0)
  ELSE LET processed_region == ProcessValue(h, ctx, region) IN
    IF processed_region.raised THEN processed_region
    ELSE Gives(TextNode(<<"# TODO: GetAZs for specific region ">>
                        \o StrOf(processed_region.value)), processed_region.logged)

\* lines 481-502
HandleFindInMap(h, ctx, args) ==
  IF IsInt(args) THEN Throws("TypeError", 0)
  ELSE IF Arity(args) # 3
    THEN Gives(TextNode(<<"# TODO: Invalid FindInMap arguments: ">> \o StrOf(args)), 0)
  ELSE
    LET map_name == Unpack(args)[1]
        top_level_key == Unpack(args)[2]
        second_level_key == Unpack(args)[3]
        processed_top_key == ProcessValue(h, ctx, top_level_key)
        processed_second_key == ProcessValue(h, ctx, second_level_key)
        \* line 502, reached when the try block gave no value
        lookup ==
          IF ~IsStr(map_name) THEN Throws("AttributeError", 0)
          ELSE IF processed_top_key.raised THEN processed_top_key
          ELSE IF processed_second_key.raised
            THEN Throws(processed_second_key.exc,
                        processed_top_key.logged + processed_second_key.logged)
          ELSE Gives(TextNode(<<"local.", Lower(NameOf(map_name)), "[">>
                              \o StrOf(processed_top_key.value) \o <<"][">>
                              \o StrOf(processed_second_key.value) \o <<"]">>),
                     processed_top_key.logged + processed_second_key.logged)
        \* an exception of the try block that its except clause does not catch
        escapes(p) == p.raised /\ p.exc \notin {"KeyError", "TypeError"}
    IN
    IF ~Hashable(map_name) THEN Throws("TypeError", 0)
    ELSE IF IsStr(map_name) /\ DictHas(h.mappings, NameOf(map_name))
      THEN
        IF escapes(processed_top_key) THEN processed_top_key
        ELSE IF processed_top_key.raised THEN lookup
        ELSE IF escapes(processed_second_key) THEN processed_second_key
        ELSE IF processed_second_key.raised THEN lookup
        ELSE IF IsStr(processed_top_key.value) /\ IsStr(processed_second_key.value)
          THEN LET table == DictGet(h.mappings, NameOf(map_name)) IN
            IF /\ Len(processed_top_key.value.s) = 1
               /\ DictHas(table, NameOf(processed_top_key.value))
               /\ Len(processed_second_key.value.s) = 1
               /\ DictHas(DictGet(table, NameOf(processed_top_key.value)),
                          NameOf(processed_second_key.value))
              THEN Gives(TextNode(<<"\"">>
                           \o StrOf(DictGet(DictGet(table, NameOf(processed_top_key.value)),
                                            NameOf(processed_second_key.value)))
                           \o <<"\"">>),
                         processed_top_key.logged + processed_second_key.logged)
              ELSE lookup
          ELSE lookup
      ELSE lookup

\* lines 504-514
HandleIf(h, ctx, args) ==
  IF IsInt(args) THEN Throws("TypeError", 0)
  ELSE IF Arity(args) # 3
    THEN Gives(TextNode(<<"# TODO: Invalid If arguments: ">> \o StrOf(args)), 0)
  ELSE LET condition_name == Unpack(args)[1]
           processed_true == ProcessValue(h, ctx, Unpack(args)[2])
           processed_false == ProcessValue(h, ctx, Unpack(args)[3])
       IN IF processed_true.raised THEN processed_true
          ELSE IF processed_false.raised THEN processed_false
          ELSE IF ~IsStr(condition_name)
            THEN Throws("AttributeError", processed_true.logged + processed_false.logged)
          ELSE Gives(TextNode(<<"var.", Lower(NameOf(condition_name)), " - ">>
                              \o StrOf(processed_true.value) \o <<" : ">>
                              \o StrOf(processed_false.value)),
                     processed_true.logged + processed_false.logged)

\* --------------------------------------------------------------- inputs
SourceTypes ==
  {"AWS::EC2::VPC", "AWS::EC2::SecurityGroupIngress", "AWS::EC2::SecurityGroupEgress",
   "AWS::CloudFormation::Stack", "AWS::Unknown::Resource", "AWS::Custom::Thing"}

\* a resource entry of the template: not a mapping at all, a mapping without
\* Type, or a mapping with a Type whose Properties are a mapping or are not
\* (props holds the Properties when they are a mapping: those of a VPC are
\* empty, a literal CidrBlock, a CidrBlock given by a Ref to a name the
\* template does not declare, or one given by Fn::If on the condition of the
\* template; those of the other types but the rules are empty)
VpcProperties ==
  {MapNode(<<>>),
   MapNode(<<Entry("CidrBlock", Str("10.0.0.0/16"))>>),
   MapNode(<<Entry("CidrBlock", MapNode(<<Entry("Ref", Str("Undeclared"))>>))>>),
   MapNode(<<Entry("CidrBlock",
                   MapNode(<<Entry("Fn::If", ListNode(<<Str("IsProd"), Str("10.0.0.0/16"),
                                                        Str("10.1.0.0/16")>>))>>))>>)}
\* the properties of a security group rule: none, or protocol, ports and CIDR
RuleProperties ==
  {MapNode(<<>>),
   MapNode(<<Entry("IpProtocol", Str("tcp")), Entry("FromPort", IntNode("80")),
             Entry("ToPort", IntNode("443")), Entry("CidrIp", Str("0.0.0.0/0"))>>)}
PropertiesOf(t) ==
  CASE t = "AWS::EC2::VPC" -> VpcProperties
    [] t \in {"AWS::EC2::SecurityGroupIngress", "AWS::EC2::SecurityGroupEgress"} ->
         RuleProperties
    [] OTHER -> {MapNode(<<>>)}
ResourceConfigs ==
  {[shape |-> "notmapping", Type |-> None, Properties |-> "mapping", props |-> MapNode(<<>>)],
   [shape |-> "mapping", Type |-> None, Properties |-> "mapping", props |-> MapNode(<<>>)]}
  \cup UNION {{[shape |-> "mapping", Type |-> t, Properties |-> "mapping", props |-> q] :
                 q \in PropertiesOf(t)} : t \in SourceTypes}
  \cup [shape : {"mapping"},
        Type : {t \in SourceTypes : GetTerraformType(t) # None},
        Properties : {"notmapping"},
        props : {MapNode(<<>>)}]

\* the strictly increasing index sequences of length n over 1..m
RECURSIVE IncreasingSeqs(_, _)
IncreasingSeqs(n, m) ==
  IF n = 0 THEN {<<>>}
  ELSE IF m < n THEN {}
  ELSE IncreasingSeqs(n, m - 1)
       \cup {Append(q, m) : q \in IncreasingSeqs(n - 1, m - 1)}

\* Resources sections of n entries: distinct logical ids, any configs
ResourceSections(n) ==
  {[k \in 1..n |-> [logical_id |-> LogicalIds[ix[k]], config |-> cf[k]]] :
     ix \in IncreasingSeqs(n, Len(LogicalIds)), cf \in [1..n -> ResourceConfigs]}

\* a section other than Resources: absent, well formed, or malformed so that
\* its conversion raises
Sections(name) ==
  {[names |-> {}, malformed |-> FALSE],
   [names |-> {name}, malformed |-> FALSE],
   [names |-> {name}, malformed |-> TRUE]}
WellFormed(name) == [names |-> {name}, malformed |-> FALSE]

\* ConversionResult(terraform_config={}); keys holds the keys of
\* terraform_config that have been set
EmptyResult ==
  [terraform_config |-> [keys |-> {}, resource |-> {}, locals |-> {}],
   import_commands |-> <<>>, variables |-> {}, outputs |-> {}, locals |-> {},
   warnings |-> <<>>, errors |-> <<>>]

\* ------------------------------------------------------ resolver inputs
\* a function call: a mapping with the function name as its single key
Call(f, a) == MapNode(<<Entry(f, a)>>)

\* the Mappings section of the template
RegionMapTable ==
  MapNode(<<Entry("us-east-1", MapNode(<<Entry("AMI", Str("ami-123"))>>)),
            Entry("us-west-2", MapNode(<<Entry("AMI", Str("ami-456"))>>))>>)

\* IntrinsicFunctionHandler(parameters, mappings) of a template, and
\* IntrinsicFunctionHandler() as convert_resource builds it
TemplateHandler ==
  [parameters |-> {"EnvParam", "Shared"},
   mappings |-> MapNode(<<Entry("RegionMap", RegionMapTable)>>)]
BareHandler == [parameters |-> {}, mappings |-> MapNode(<<>>)]

\* {'resources': resources, ...} of a template, and the {} of convert_resource
TemplateContext ==
  [resources |->
     {[name |-> "MyVPC", shape |-> "mapping", Type |-> "AWS::EC2::VPC"],
      [name |-> "MySubnet", shape |-> "mapping", Type |-> "AWS::EC2::Subnet"],
      [name |-> "MyDB", shape |-> "mapping", Type |-> "AWS::RDS::DBInstance"],
      [name |-> "WebRule", shape |-> "mapping", Type |-> "AWS::EC2::SecurityGroupIngress"],
      [name |-> "Custom", shape |-> "mapping", Type |-> "AWS::Custom::Thing"],
      [name |-> "Shared", shape |-> "mapping", Type |-> "AWS::EC2::VPC"],
      [name |-> "Broken", shape |-> "notmapping", Type |-> None]}]
BareContext == [resources |-> {}]

\* names referred to: parameters, resources, pseudo parameters, none of them
RefNames ==
  {"EnvParam", "Shared", "MyVPC", "MySubnet", "WebRule", "Custom", "Broken",
   "AWS::Region", "AWS::StackId", "AWS::Partition", "AWS::NoValue", "Undeclared"}

\* arguments that are not the list a function expects
WrongShapes ==
  {IntNode("5"), Str("MyVPC.CidrBlock"), ListNode(<<Str("a")>>),
   MapNode(<<Entry("a", Str("b"))>>)}

RefCalls ==
  {Call("Ref", Str(n)) : n \in RefNames}
  \cup {Call("Ref", IntNode("5")), Call("Ref", ListNode(<<Str("MyVPC")>>))}

GetAttCalls ==
  {Call("Fn::GetAtt", ListNode(<<Str(r), Str(a)>>)) :
     r \in {"MyVPC", "MySubnet", "MyDB", "Custom", "Broken", "Undeclared"},
     a \in {"CidrBlock", "Endpoint.Address", "AvailabilityZone"}}
  \cup {Call("Fn::GetAtt", w) : w \in WrongShapes}
  \cup {Call("Fn::GetAtt", ListNode(<<Str("MyVPC"), Str("CidrBlock"), Str("x")>>)),
        Call("Fn::GetAtt", ListNode(<<Str("MyVPC"), IntNode("5")>>)),
        Call("Fn::GetAtt", ListNode(<<ListNode(<<Str("MyVPC")>>), Str("CidrBlock")>>))}

JoinCalls ==
  {Call("Fn::Join", ListNode(<<Str("-"), ListNode(<<Str("a"), e>>)>>)) :
     e \in {Str("b"), IntNode("5"), Call("Ref", Str("EnvParam")),
            Call("Ref", Str("Undeclared"))}}
  \cup {Call("Fn::Join", w) : w \in WrongShapes}
  \cup {Call("Fn::Join", ListNode(<<Str("-"), IntNode("5")>>)),
        Call("Fn::Join", ListNode(<<Str("-"), Call("Ref", Str("EnvParam"))>>))}

\* the template string "prefix-${n}-suffix"
Placeholder(n) == TextNode(<<"prefix-", "${", n, "}", "-suffix">>)
SubNames ==
  {"Env", "EnvParam", "Shared", "MyVPC", "Custom", "AWS::Region", "AWS::AccountId",
   "AWS::StackName", "AWS::StackId", "AWS::Partition", "Unknown"}
SubCalls ==
  {Call("Fn::Sub", Placeholder(n)) : n \in SubNames}
  \cup {Call("Fn::Sub", ListNode(<<Placeholder(n), MapNode(<<Entry(k, v)>>)>>)) :
          n \in SubNames, k \in {"Env", "EnvParam", "AWS::Region"},
          v \in {Str("explicit"), Call("Ref", Str("EnvParam"))}}
  \cup {Call("Fn::Sub", ListNode(<<Placeholder("Env"), MapNode(<<>>)>>)),
        Call("Fn::Sub", TextNode(<<"${", "EnvParam", "}", "-", "${", "MyVPC", "}">>)),
        Call("Fn::Sub", Str("plain")),
        Call("Fn::Sub", IntNode("5")),
        Call("Fn::Sub", ListNode(<<Placeholder("Env")>>)),
        Call("Fn::Sub", MapNode(<<Entry("a", Str("b"))>>)),
        Call("Fn::Sub", ListNode(<<Placeholder("Env"), Str("notamap")>>)),
        Call("Fn::Sub", ListNode(<<IntNode("5"), MapNode(<<>>)>>)),
        Call("Fn::Sub", ListNode(<<Placeholder("Env"),
                                   MapNode(<<Entry("Env", Call("Fn::Select", IntNode("5")))>>)>>)),
        Call("Fn::Sub", Placeholder("Broken"))}

SelectCalls ==
  {Call("Fn::Select", ListNode(<<IntNode("0"), a>>)) :
     a \in {ListNode(<<Str("a"), Str("b")>>), Call("Fn::GetAZs", Str("")),
            Call("Fn::Select", IntNode("5"))}}
  \cup {Call("Fn::Select", w) : w \in WrongShapes}

SplitCalls ==
  {Call("Fn::Split", ListNode(<<Str(","), a>>)) :
     a \in {Str("a,b"), Call("Ref", Str("EnvParam"))}}
  \cup {Call("Fn::Split", w) : w \in WrongShapes}

Base64Calls ==
  {Call("Fn::Base64", a) :
     a \in {Str("script"), Call("Fn::Sub", Placeholder("EnvParam")),
            Call("Fn::Join", IntNode("5"))}}

GetAzsCalls ==
  {Call("Fn::GetAZs", a) :
     a \in {Str(""), Str("us-east-1"), Call("Ref", Str("AWS::Region"))}}

FindInMapCalls ==
  {Call("Fn::FindInMap", ListNode(<<m, k1, k2>>)) :
     m \in {Str("RegionMap"), Str("Unknown")},
     k1 \in {Str("us-east-1"), Str("eu-west-9"), IntNode("5"),
             Call("Ref", Str("AWS::Region")), Call("Ref", Str("Undeclared")),
             Call("Fn::Select", IntNode("5")),
             Call("Fn::If", ListNode(<<IntNode("5"), Str("a"), Str("b")>>))},
     k2 \in {Str("AMI"), Str("Missing"), Call("Ref", Str("EnvParam"))}}
  \cup {Call("Fn::FindInMap", w) : w \in WrongShapes}
  \cup {Call("Fn::FindInMap", ListNode(<<IntNode("5"), Str("us-east-1"), Str("AMI")>>)),
        Call("Fn::FindInMap", ListNode(<<ListNode(<<Str("RegionMap")>>), Str("us-east-1"),
                                         Str("AMI")>>))}

IfCalls ==
  {Call("Fn::If", ListNode(<<c, Str("t3.large"), e>>)) :
     c \in {Str("IsProd"), IntNode("5")},
     e \in {Str("t3.micro"), Call("Ref", Str("AWS::NoValue"))}}
  \cup {Call("Fn::If", w) : w \in WrongShapes}

\* single-key mappings whose key starts with Fn:: and has no handler
OtherFnCalls ==
  {Call("Fn::Transform",
        MapNode(<<Entry("Name", Str("AWS::Include")),
                  Entry("Parameters", MapNode(<<Entry("Location", Str("s3://bucket/key"))>>))>>)),
   Call("Fn::ImportValue", Str("SharedVpcId")),
   Call("Fn::ImportValue", Call("Fn::Sub", Placeholder("EnvParam")))}

FunctionCalls ==
  RefCalls \cup GetAttCalls \cup JoinCalls \cup SubCalls \cup SelectCalls \cup SplitCalls
  \cup Base64Calls \cup GetAzsCalls \cup FindInMapCalls \cup IfCalls \cup OtherFnCalls

\* values that hold no function call
PlainValues ==
  {Str("10.0.0.0/16"), IntNode("5"), Str(""),
   ListNode(<<>>), ListNode(<<Str("a"), IntNode("5"), Str("b")>>),
   MapNode(<<>>),
   MapNode(<<Entry("CidrBlock", Str("10.0.0.0/16"))>>),
   MapNode(<<Entry("Name", Str("Ref"))>>),
   MapNode(<<Entry("CidrBlock", Str("10.0.0.0/16")), Entry("EnableDnsSupport", Str("true"))>>),
   MapNode(<<Entry("Ref", Str("EnvParam")), Entry("Name", Str("x"))>>),
   MapNode(<<Entry("Tags", ListNode(<<MapNode(<<Entry("Key", Str("Name")),
                                               Entry("Value", Str("web"))>>)>>))>>)}

\* a value, put into a list or under a key of a mapping up to n times
RECURSIVE Nested(_, _)
Nested(S, n) ==
  IF n = 0 THEN S
  ELSE LET inner == Nested(S, n - 1) IN
    inner
    \cup {ListNode(<<Str("head"), e>>) : e \in inner}
    \cup {MapNode(<<Entry("Name", e)>>) : e \in inner}
    \cup {MapNode(<<Entry("CidrBlock", Str("10.0.0.0/16")), Entry("Name", e)>>) : e \in inner}

Expressions == Nested(FunctionCalls \cup PlainValues, MaxNest)

ScriptIdle ==
  /\ resources = <<>>
  /\ script = <<>>
  /\ parsed = <<>>
  /\ spc = "idle"

CwdIdle ==
  /\ os_cwd = "caller_dir"
  /\ start_cwd = "caller_dir"
  /\ cwd_parallel = FALSE
  /\ cwd_threads = <<>>
  /\ cwd_calls = <<>>
  /\ cwd_todo = 0

ResolveIdle ==
  /\ func_handler = BareHandler
  /\ context = BareContext
  /\ expression = NoValue
  /\ resolved = Gives(NoValue, 0)
  /\ rpc = "idle"

ConvIdle ==
  /\ engine = [preserve_names |-> TRUE, handle_functions |-> TRUE]
  /\ template = [Parameters |-> WellFormed("EnvParam"), Mappings |-> WellFormed("RegionMap"),
                 Conditions |-> WellFormed("IsProd"), Resources |-> <<>>,
                 Outputs |-> WellFormed("VpcId")]
  /\ result = EmptyResult
  /\ cpc = "idle"
  /\ ridx = 1
  /\ terraform_resources = {}
  /\ converted = <<>>

ImportIdle ==
  /\ batch_expired = FALSE
  /\ terraform_dir_exists = TRUE
  /\ manager = [parallel |-> FALSE, max_workers |-> 1, retry_failed |-> FALSE,
                max_retries |-> 0, create_backup |-> FALSE]
  /\ state_files = {}
  /\ backup_files = {}
  /\ import_commands = <<>>
  /\ failPlan = <<>>
  /\ failKind = "nonzero"
  /\ tries = <<>>
  /\ summary = EmptySummary(0)
  /\ pc = "unused"
  /\ cur = 1
  /\ pending = NoResult
  /\ queue = <<>>
  /\ workers = <<>>
  /\ futures = <<>>
  /\ collected = {}

\* the templates: every combination of sections over a short Resources
\* section, and well-formed sections over Resources sections up to MaxResources
InitConvert ==
  /\ ImportIdle
  /\ CwdIdle
  /\ ScriptIdle
  /\ ResolveIdle
  /\ engine \in [preserve_names : BOOLEAN, handle_functions : BOOLEAN]
  /\ \/ /\ \E n \in 0..MaxPhaseResources :
             template \in [Parameters : Sections("EnvParam"), Mappings : Sections("RegionMap"),
                           Conditions : Sections("IsProd"), Resources : ResourceSections(n),
                           Outputs : Sections("VpcId")]
     \/ /\ \E n \in 1..MaxResources :
             template \in [Parameters : {WellFormed("EnvParam")},
                           Mappings : {WellFormed("RegionMap")},
                           Conditions : {WellFormed("IsProd")},
                           Resources : ResourceSections(n),
                           Outputs : {WellFormed("VpcId")}]
  /\ result = EmptyResult
  /\ cpc = "parameters"
  /\ ridx = 1
  /\ terraform_resources = {}
  /\ converted = <<>>

\* ------------------------------------------------------------------- Init
IdleWorker == [pc |-> "idle", cmd |-> 0]

Managers ==
  [parallel : BOOLEAN, max_workers : 1..MaxWorkersCfg, retry_failed : BOOLEAN,
   max_retries : 0..MaxRetriesCfg, create_backup : BOOLEAN]

\* a batch of n commands with an environment plan for each of them
InitBatch(n) ==
  /\ import_commands = [i \in 1..n |-> CmdInfo(i)]
  /\ failPlan \in [1..n -> 0..MaxFails]
  /\ tries = [i \in 1..n |-> 0]
  /\ futures = [i \in 1..n |-> NoResult]

\* the inputs: managers that take a backup over every set of state files with
\* a short batch, managers that take none with batches up to MaxCmds, and
\* managers constructed over a terraform_dir that does not exist (and so
\* holds no state file)
InitImport ==
  /\ ConvIdle
  /\ CwdIdle
  /\ ScriptIdle
  /\ ResolveIdle
  /\ batch_expired = FALSE
  /\ manager \in Managers
  /\ \/ /\ terraform_dir_exists = TRUE
        /\ manager.create_backup
        /\ state_files \in SUBSET StateFiles
        /\ \E n \in 1..MaxBackupCmds : InitBatch(n)
     \/ /\ terraform_dir_exists = TRUE
        /\ ~manager.create_backup
        /\ state_files = StateFiles
        /\ \E n \in 1..MaxCmds : InitBatch(n)
     \/ /\ terraform_dir_exists = FALSE
        /\ state_files = {}
        /\ \E n \in 1..MaxBackupCmds : InitBatch(n)
  /\ backup_files = {}
  /\ failKind \in FailKinds
  /\ summary = EmptySummary(0)
  /\ pc = "new"
  /\ cur = 1
  /\ pending = NoResult
  /\ queue = <<>>
  /\ workers = [w \in 1..manager.max_workers |-> IdleWorker]
  /\ collected = {}

\* ------------------------------------------------ ImportManager.__init__
\* lines 158-186 without the check of lines 183-184
ImportManagerInitNoCheck ==
  /\ pc = "new"
  /\ pc' = "idle"
  /\ UNCHANGED <<convVars, resolveVars, cwdVars, scriptVars>>
  /\ UNCHANGED <<batch_expired, terraform_dir_exists, manager, state_files, backup_files, import_commands,
                 failPlan, failKind, tries, summary, cur, pending, queue, workers, futures,
                 collected>>

\* lines 158-186: the fields are set, then ValueError is raised when
\* terraform_dir does not exist; no object is returned to call
\* execute_import_script on
ImportManagerInit ==
  /\ pc = "new"
  /\ pc' = IF terraform_dir_exists THEN "idle" ELSE "init_raised"
  /\ UNCHANGED <<convVars, resolveVars, cwdVars, scriptVars>>
  /\ UNCHANGED <<batch_expired, terraform_dir_exists, manager, state_files, backup_files, import_commands,
                 failPlan, failKind, tries, summary, cur, pending, queue, workers, futures,
                 collected>>

\* ------------------------------------------------- execute_import_script
\* lines 288-290: the backup step, when create_backup is set
CreateStateBackup ==
  /\ pc = "idle"
  /\ manager.create_backup
  /\ \E failAt \in BackupFailures :
       /\ backup_files' = BackupCopied(state_files, failAt)
       /\ pc' = IF BackupRaises(state_files, failAt) THEN "raised" ELSE "parse"
  /\ UNCHANGED <<convVars, resolveVars, cwdVars, scriptVars>>
  /\ UNCHANGED <<batch_expired, terraform_dir_exists, manager, state_files, import_commands, failPlan, failKind, tries, summary,
                 cur, pending, queue, workers, futures, collected>>

SkipStateBackup ==
  /\ pc = "idle"
  /\ ~manager.create_backup
  /\ pc' = "parse"
  /\ UNCHANGED <<convVars, resolveVars, cwdVars, scriptVars>>
  /\ UNCHANGED <<batch_expired, terraform_dir_exists, manager, state_files, backup_files, import_commands, failPlan, failKind,
                 tries, summary, cur, pending, queue, workers, futures,
                 collected>>

\* lines 297-305: parse, then choose the executor
Dispatch ==
  /\ pc = "parse"
  /\ summary' = EmptySummary(NumCmds)
  /\ IF manager.parallel /\ NumCmds > 1
       THEN /\ pc' = "parallel"
            /\ queue' = [i \in 1..NumCmds |-> i]
       ELSE /\ pc' = "sequential"
            /\ queue' = queue
  /\ UNCHANGED <<convVars, resolveVars, cwdVars, scriptVars>>
  /\ UNCHANGED <<batch_expired, terraform_dir_exists, manager, state_files, backup_files, import_commands, failPlan, failKind,
                 tries, cur, pending, workers, futures, collected>>

\* the caller's overall deadline for the batch passes while the batch runs.
\* execute_import_script and both executors take no such deadline (the only
\* timeout of the class is the per-command self.timeout of line 177), so no
\* step of the program reads batch_expired
BatchTimeoutExpires ==
  /\ pc \in {"sequential", "parallel"}
  /\ ~batch_expired
  /\ batch_expired' = TRUE
  /\ UNCHANGED <<convVars, resolveVars, cwdVars, scriptVars>>
  /\ UNCHANGED <<terraform_dir_exists, manager, state_files, backup_files, import_commands,
                 failPlan, failKind, tries, summary, pc, cur, pending, queue, workers,
                 futures, collected>>

\* ------------------------------------------- _execute_sequential_imports
\* lines 530-539: first attempt of the command at the loop index
SeqFirstAttempt ==
  /\ pc = "sequential"
  /\ cur <= NumCmds
  /\ pending = NoResult
  /\ \E outcome \in Outcomes(cur) :
       LET ret == ExecuteSingleImport(import_commands[cur], 0, outcome) IN
         /\ summary' = RecordAttempt(summary, ret)
         /\ IF ~ret.raised /\ ~ret.result.success /\ ShouldRetry(ret.result)
              THEN pending' = ret.result /\ cur' = cur
              ELSE pending' = NoResult /\ cur' = cur + 1
  /\ tries' = [tries EXCEPT ![cur] = @ + 1]
  /\ UNCHANGED <<convVars, resolveVars, cwdVars, scriptVars>>
  /\ UNCHANGED <<batch_expired, terraform_dir_exists, manager, state_files, backup_files, import_commands, failPlan, failKind,
                 pc, queue, workers, futures, collected>>

\* lines 540-548: the retry of a failed first attempt
SeqRetry ==
  /\ pc = "sequential"
  /\ pending # NoResult
  /\ \E outcome \in Outcomes(cur) :
       LET ret == ExecuteSingleImport(import_commands[cur],
                                      pending.retry_count + 1, outcome) IN
         summary' = RecordRetry(summary, ret)
  /\ tries' = [tries EXCEPT ![cur] = @ + 1]
  /\ pending' = NoResult
  /\ cur' = cur + 1
  /\ UNCHANGED <<convVars, resolveVars, cwdVars, scriptVars>>
  /\ UNCHANGED <<batch_expired, terraform_dir_exists, manager, state_files, backup_files, import_commands, failPlan, failKind,
                 pc, queue, workers, futures, collected>>

\* line 556
SeqReturn ==
  /\ pc = "sequential"
  /\ cur > NumCmds
  /\ pc' = "returned"
  /\ UNCHANGED <<convVars, resolveVars, cwdVars, scriptVars>>
  /\ UNCHANGED <<batch_expired, terraform_dir_exists, manager, state_files, backup_files, import_commands, failPlan, failKind,
                 tries, summary, cur, pending, queue, workers, futures,
                 collected>>

\* --------------------------------------------- _execute_parallel_imports
\* a pool thread takes the next submitted task and launches its command
\* (lines 564-569, 601-603)
WorkerStart(w) ==
  /\ pc = "parallel"
  /\ workers[w].pc = "idle"
  /\ queue # <<>>
  /\ workers' = [workers EXCEPT ![w] = [pc |-> "running", cmd |-> Head(queue)]]
  /\ queue' = Tail(queue)
  /\ tries' = [tries EXCEPT ![Head(queue)] = @ + 1]
  /\ UNCHANGED <<convVars, resolveVars, cwdVars, scriptVars>>
  /\ UNCHANGED <<batch_expired, terraform_dir_exists, manager, state_files, backup_files, import_commands, failPlan, failKind,
                 summary, pc, cur, pending, futures, collected>>

\* the command ends and _execute_single_import returns: the future completes
\* (lines 605-617)
WorkerFinish(w) ==
  /\ workers[w].pc = "running"
  /\ \E outcome \in OutcomesOfTry(workers[w].cmd, tries[workers[w].cmd]) :
       futures' = [futures EXCEPT ![workers[w].cmd] =
                     ExecuteSingleImport(import_commands[workers[w].cmd], 0, outcome)]
  /\ workers' = [workers EXCEPT ![w] = IdleWorker]
  /\ UNCHANGED <<convVars, resolveVars, cwdVars, scriptVars>>
  /\ UNCHANGED <<batch_expired, terraform_dir_exists, manager, state_files, backup_files, import_commands, failPlan, failKind,
                 tries, summary, pc, cur, pending, queue, collected>>

\* lines 572-586: as_completed yields a finished future, any order
Collect ==
  /\ pc = "parallel"
  /\ \E i \in CmdIdx \ collected :
       /\ futures[i] # NoResult
       /\ summary' = RecordAttempt(summary, futures[i])
       /\ collected' = collected \cup {i}
  /\ UNCHANGED <<convVars, resolveVars, cwdVars, scriptVars>>
  /\ UNCHANGED <<batch_expired, terraform_dir_exists, manager, state_files, backup_files, import_commands, failPlan, failKind,
                 tries, pc, cur, pending, queue, workers, futures>>

\* line 588
ParReturn ==
  /\ pc = "parallel"
  /\ collected = CmdIdx
  /\ pc' = "returned"
  /\ UNCHANGED <<convVars, resolveVars, cwdVars, scriptVars>>
  /\ UNCHANGED <<batch_expired, terraform_dir_exists, manager, state_files, backup_files, import_commands, failPlan, failKind,
                 tries, summary, cur, pending, queue, workers, futures,
                 collected>>

\* ------------------------------------------------------ _convert_resource
UnsupportedWarning(logical_id, cf_type) ==
  [msg |-> "Unsupported resource type", ref |-> cf_type]

NestedStackWarning(logical_id) ==
  [msg |-> "Nested stack requires manual template conversion", ref |-> logical_id]

ResourceError(logical_id) ==
  [msg |-> "Failed to convert resource", ref |-> logical_id]

TemplateError == [msg |-> "Template conversion failed", ref |-> None]

Raise == [raised |-> TRUE, isNone |-> FALSE]
ReturnNone == [raised |-> FALSE, isNone |-> TRUE]
Return(v) == [raised |-> FALSE, isNone |-> FALSE, value |-> v]

\* PROPERTY_MAPPINGS of the target types of the templates, lines 143-212, and
\* property_mapping.get(cf_prop, cf_prop.lower()), line 230 (the target type
\* of a security group rule has no entry)
PropertyMappings(terraform_type, cf_prop) ==
  CASE terraform_type = "aws_vpc" /\ cf_prop = "CidrBlock" -> "cidr_block"
    [] terraform_type = "aws_vpc" /\ cf_prop = "EnableDnsHostnames" -> "enable_dns_hostnames"
    [] terraform_type = "aws_vpc" /\ cf_prop = "EnableDnsSupport" -> "enable_dns_support"
    [] terraform_type = "aws_vpc" /\ cf_prop = "InstanceTenancy" -> "instance_tenancy"
    [] terraform_type = "aws_vpc" /\ cf_prop = "Tags" -> "tags"
    [] OTHER -> Lower(cf_prop)

\* the loop of lines 229-231: terraform_properties[terraform_prop] = value
RECURSIVE MapItems(_, _, _)
MapItems(terraform_type, es, acc) ==
  IF es = <<>> THEN acc
  ELSE MapItems(terraform_type, Tail(es),
                DictSet(acc, PropertyMappings(terraform_type, Key(es[1])), Val(es[1])))

\* every property keeps its lower-cased name
MapPropertiesLowerOnly(cf_type, cf_properties) ==
  IF GetTerraformType(cf_type) = None THEN cf_properties
  ELSE MapNode([i \in DOMAIN cf_properties.items |->
                  Entry(Lower(Key(cf_properties.items[i])), Val(cf_properties.items[i]))])

\* lines 219-233
MapProperties(cf_type, cf_properties) ==
  IF GetTerraformType(cf_type) = None THEN cf_properties
  ELSE MapNode(MapItems(GetTerraformType(cf_type), cf_properties.items, <<>>))

\* transformed[new] = transformed.pop(old), when old is a key
MoveKey(es, old, new) ==
  IF \E i \in DOMAIN es : Key(es[i]) = old
    THEN DictSet(DictPop(es, old), new,
                 Val(es[CHOOSE i \in DOMAIN es : Key(es[i]) = old]))
    ELSE es

\* lines 845-867
TransformSecurityGroupRule(properties, cf_type) ==
  LET typed == DictSet(properties.items, "type",
                       Str(IF cf_type = "AWS::EC2::SecurityGroupIngress"
                             THEN "ingress" ELSE "egress"))
      ported == MoveKey(MoveKey(MoveKey(typed, "IpProtocol", "protocol"),
                                "FromPort", "from_port"), "ToPort", "to_port")
  IN MapNode(IF \E i \in DOMAIN ported : Key(ported[i]) = "CidrIp"
               THEN DictSet(DictPop(ported, "CidrIp"), "cidr_blocks",
                            ListNode(<<Val(ported[CHOOSE i \in DOMAIN ported :
                                                    Key(ported[i]) = "CidrIp"])>>))
               ELSE ported)

\* lines 824-843 (the templates hold no bucket, role or function)
ApplyResourceTransformations(cf_type, properties) ==
  IF cf_type \in {"AWS::EC2::SecurityGroupIngress", "AWS::EC2::SecurityGroupEgress"}
    THEN TransformSecurityGroupRule(properties, cf_type)
    ELSE properties

\* lines 564 and 580: the handler and the context convert_template builds
FuncHandlerOf(t) ==
  [parameters |-> t.Parameters.names,
   mappings |-> MapNode(IF t.Mappings.names = {} THEN <<>>
                        ELSE <<Entry("RegionMap", RegionMapTable)>>)]
ContextOf(t) ==
  [resources |-> {[name |-> t.Resources[k].logical_id,
                   shape |-> t.Resources[k].config.shape,
                   Type |-> t.Resources[k].config.Type] : k \in DOMAIN t.Resources}]

\* lines 790-822
ConvertNestedStack(logical_id, config) ==
  IF config.Properties = "notmapping" THEN Raise
  ELSE
    LET template_url == IF DictHas(config.props, "TemplateURL")
                          THEN DictGet(config.props, "TemplateURL") ELSE Str("")
        source == Entry("source", TextNode(<<"# TODO: Convert nested stack template from ">>
                                           \o StrOf(template_url)))
        ModuleOf(parameters, processed) ==
          IF ~IsMap(parameters) \/ processed.raised THEN Raise
          ELSE Return([resources |->
                         {[type |-> "module", name |-> Lower(logical_id), from |-> logical_id,
                           properties |->
                             MapNode(MapItems("module",
                                       [i \in DOMAIN parameters.items |->
                                          Entry(Key(parameters.items[i]),
                                                processed.value.items[i])],
                                       <<source>>))]},
                       import_commands |-> <<>>,
                       warnings |-> <<NestedStackWarning(logical_id)>>])
        Processed(parameters) ==
          ModuleOf(parameters,
                   ProcessAll(FuncHandlerOf(template), ContextOf(template),
                              [i \in DOMAIN parameters.items |-> Val(parameters.items[i])]))
    IN
    Processed(IF DictHas(config.props, "Parameters")
                THEN DictGet(config.props, "Parameters") ELSE MapNode(<<>>))

\* lines 661-717; the returned 'resources' is {type: {name: properties}}
ConvertResource(logical_id, config) ==
  IF config.shape = "notmapping" THEN Raise
  ELSE IF config.Type = None THEN ReturnNone
  ELSE IF GetTerraformType(config.Type) = None
    THEN Return([resources |-> {}, import_commands |-> <<>>,
                 warnings |-> <<UnsupportedWarning(logical_id, config.Type)>>])
  ELSE IF config.Type = "AWS::CloudFormation::Stack"
    THEN ConvertNestedStack(logical_id, config)
  ELSE IF config.Properties = "notmapping" THEN Raise
  ELSE
    LET \* map_properties iterates over the items of a mapping
        Mapped(processed_properties) ==
          IF processed_properties.raised \/ ~IsMap(processed_properties.value) THEN Raise
          ELSE Return([resources |->
                         {[type |-> GetTerraformType(config.Type),
                           name |-> ResourceName(logical_id),
                           from |-> logical_id,
                           properties |->
                             ApplyResourceTransformations(config.Type,
                               MapProperties(config.Type, processed_properties.value))]},
                       import_commands |->
                         GenerateImportCommand(GetTerraformType(config.Type),
                                               ResourceName(logical_id)),
                       warnings |-> <<>>])
    IN
    Mapped(IF engine.handle_functions
             THEN ProcessValue(FuncHandlerOf(template), ContextOf(template), config.props)
             ELSE Gives(config.props, 0))

\* dict.update on {type: {name: properties}}: the value of a key of the
\* argument replaces the value the dict held for that key (line 589)
DictUpdate(tr, new) ==
  {e \in tr : \A n \in new : n.type # e.type} \cup new

\* ------------------------------------------------------- convert_template
\* lines 615-618: the handler around all the phases
OuterFailure(res) == [res EXCEPT !.errors = Append(@, TemplateError)]

\* lines 567-568
ConvertParameters ==
  /\ cpc = "parameters"
  /\ IF template.Parameters.names = {}
       THEN result' = result /\ cpc' = "mappings"
       ELSE IF template.Parameters.malformed
         THEN result' = OuterFailure(result) /\ cpc' = "done"
         ELSE /\ result' = [result EXCEPT !.variables =
                              {Lower(p) : p \in template.Parameters.names}]
              /\ cpc' = "mappings"
  /\ UNCHANGED <<importVars, resolveVars, cwdVars, scriptVars>>
  /\ UNCHANGED <<engine, template, ridx, terraform_resources, converted>>

\* lines 571-572
ConvertMappings ==
  /\ cpc = "mappings"
  /\ IF template.Mappings.names = {}
       THEN result' = result /\ cpc' = "conditions"
       ELSE IF template.Mappings.malformed
         THEN result' = OuterFailure(result) /\ cpc' = "done"
         ELSE /\ result' = [result EXCEPT !.locals =
                              @ \cup {Lower(m) : m \in template.Mappings.names}]
              /\ cpc' = "conditions"
  /\ UNCHANGED <<importVars, resolveVars, cwdVars, scriptVars>>
  /\ UNCHANGED <<engine, template, ridx, terraform_resources, converted>>

\* lines 575-576
ConvertConditions ==
  /\ cpc = "conditions"
  /\ IF template.Conditions.names = {}
       THEN result' = result /\ cpc' = "resources"
       ELSE IF template.Conditions.malformed
         THEN result' = OuterFailure(result) /\ cpc' = "done"
         ELSE /\ result' = [result EXCEPT !.locals =
                              @ \cup {Lower(c) : c \in template.Conditions.names}]
              /\ cpc' = "resources"
  /\ UNCHANGED <<importVars, resolveVars, cwdVars, scriptVars>>
  /\ UNCHANGED <<engine, template, ridx, terraform_resources, converted>>

\* the loop body without its own handler: a raising resource ends the call
ConvertNextResourceAbort ==
  /\ cpc = "resources"
  /\ ridx <= Len(template.Resources)
  /\ LET logical_id == template.Resources[ridx].logical_id IN
     \E conv \in {ConvertResource(logical_id, template.Resources[ridx].config)} :
       IF conv.raised
         THEN /\ result' = OuterFailure(result)
              /\ cpc' = "done"
              /\ UNCHANGED <<terraform_resources, converted>>
         ELSE /\ cpc' = cpc
              /\ IF conv.isNone
                   THEN UNCHANGED <<result, terraform_resources, converted>>
                   ELSE /\ terraform_resources' =
                             DictUpdate(terraform_resources, conv.value.resources)
                        /\ result' = [result EXCEPT
                             !.import_commands = @ \o conv.value.import_commands,
                             !.warnings = @ \o conv.value.warnings]
                        /\ converted' = Append(converted, logical_id)
  /\ ridx' = ridx + 1
  /\ UNCHANGED <<importVars, resolveVars, cwdVars, scriptVars>>
  /\ UNCHANGED <<engine, template>>

\* lines 582-596: one iteration of the loop over the resources
ConvertNextResource ==
  /\ cpc = "resources"
  /\ ridx <= Len(template.Resources)
  /\ LET logical_id == template.Resources[ridx].logical_id IN
     \E conv \in {ConvertResource(logical_id, template.Resources[ridx].config)} :
       IF conv.raised
         THEN /\ result' = [result EXCEPT !.errors = Append(@, ResourceError(logical_id))]
              /\ UNCHANGED <<terraform_resources, converted>>
         ELSE IF conv.isNone
           THEN UNCHANGED <<result, terraform_resources, converted>>
           ELSE /\ terraform_resources' = DictUpdate(terraform_resources, conv.value.resources)
                /\ result' = [result EXCEPT
                     !.import_commands = @ \o conv.value.import_commands,
                     !.warnings = @ \o conv.value.warnings]
                /\ converted' = Append(converted, logical_id)
  /\ ridx' = ridx + 1
  /\ UNCHANGED <<importVars, resolveVars, cwdVars, scriptVars>>
  /\ UNCHANGED <<engine, template, cpc>>

\* line 598
FinishResources ==
  /\ cpc = "resources"
  /\ ridx > Len(template.Resources)
  /\ result' = [result EXCEPT !.terraform_config.resource = terraform_resources,
                               !.terraform_config.keys = @ \cup {"resource"}]
  /\ cpc' = "outputs"
  /\ UNCHANGED <<importVars, resolveVars, cwdVars, scriptVars>>
  /\ UNCHANGED <<engine, template, ridx, terraform_resources, converted>>

\* lines 601-602
ConvertOutputs ==
  /\ cpc = "outputs"
  /\ IF template.Outputs.names = {}
       THEN result' = result /\ cpc' = "finalize"
       ELSE IF template.Outputs.malformed
         THEN result' = OuterFailure(result) /\ cpc' = "done"
         ELSE /\ result' = [result EXCEPT !.outputs =
                              {Lower(o) : o \in template.Outputs.names}]
              /\ cpc' = "finalize"
  /\ UNCHANGED <<importVars, resolveVars, cwdVars, scriptVars>>
  /\ UNCHANGED <<engine, template, ridx, terraform_resources, converted>>

\* lines 605-620
Finalize ==
  /\ cpc = "finalize"
  /\ result' = [result EXCEPT
       !.terraform_config.locals = result.locals,
       !.terraform_config.keys =
          @ \cup {"data"} \cup (IF result.locals # {} THEN {"locals"} ELSE {})]
  /\ cpc' = "done"
  /\ UNCHANGED <<importVars, resolveVars, cwdVars, scriptVars>>
  /\ UNCHANGED <<engine, template, ridx, terraform_resources, converted>>

\* ---------------------------------------------------------- process_value
\* the expressions, resolved with the handler and context of a template and
\* with those convert_resource uses
InitResolve ==
  /\ ImportIdle
  /\ CwdIdle
  /\ ScriptIdle
  /\ ConvIdle
  /\ func_handler \in {TemplateHandler, BareHandler}
  /\ context \in {TemplateContext, BareContext}
  /\ expression \in Expressions
  /\ resolved = Gives(NoValue, 0)
  /\ rpc = "call"

\* func_handler.process_value(expression, context)
Resolve ==
  /\ rpc = "call"
  /\ resolved' = ProcessValue(func_handler, context, expression)
  /\ rpc' = "done"
  /\ UNCHANGED <<importVars, convVars, cwdVars, scriptVars>>
  /\ UNCHANGED <<func_handler, context, expression>>

NextResolve == Resolve

SpecResolve == InitResolve /\ [][NextResolve]_vars

\* ------------------------------------------------------- import scripts
\* A line of a script is the sequence of its fields, the texts between its
\* single spaces (line.split(' ')): two adjacent spaces are an empty field,
\* a leading space an empty first field.  A field is a sequence of pieces;
\* the empty string is the field <<>>.

\* IMPORT_TEMPLATES, lines 55-156, on the target types of the model: the part
\* of the template after 'terraform import {address} ', a {field} or a
\* literal text each; <<>> for a type without a template
ImportTemplates(terraform_type) ==
  CASE terraform_type \in {"aws_instance", "aws_vpc", "aws_subnet", "aws_security_group",
                           "aws_security_group_rule", "aws_s3_bucket", "aws_db_instance"} ->
         <<[kind |-> "field", s |-> "id"]>>
    [] terraform_type = "aws_sns_topic" -> <<[kind |-> "field", s |-> "arn"]>>
    [] terraform_type = "aws_internet_gateway_attachment" ->
         <<[kind |-> "field", s |-> "vpc_id"], [kind |-> "lit", s |-> "/"],
           [kind |-> "field", s |-> "igw_id"]>>
    [] terraform_type = "aws_route" ->
         <<[kind |-> "field", s |-> "route_table_id"], [kind |-> "lit", s |-> "_"],
           [kind |-> "field", s |-> "destination"]>>
    [] terraform_type = "aws_route_table_association" ->
         <<[kind |-> "field", s |-> "subnet_id"], [kind |-> "lit", s |-> "/"],
           [kind |-> "field", s |-> "route_table_id"]>>
    [] OTHER -> <<>>

\* lines 471-495; properties.get(key, default) on the function properties;
\* the address is built from resource_id; None when a part is empty
GenerateCompoundImportCommand(terraform_type, resource_info) ==
  LET resource_id == resource_info.resource_id
      properties == resource_info.properties
      Get(key, default) == IF key \in DOMAIN properties THEN properties[key] ELSE default
      address == <<terraform_type, ".", Lower(resource_id)>>
  IN
  IF terraform_type = "aws_internet_gateway_attachment"
    THEN LET vpc_id == Get("VpcId", "")
             igw_id == Get("InternetGatewayId", resource_id)
         IN IF vpc_id # "" /\ igw_id # ""
              THEN <<<<"terraform">>, <<"import">>, address, <<vpc_id, "/", igw_id>>>>
              ELSE None
  ELSE IF terraform_type = "aws_route_table_association"
    THEN LET subnet_id == Get("SubnetId", "")
             route_table_id == Get("RouteTableId", "")
         IN IF subnet_id # "" /\ route_table_id # ""
              THEN <<<<"terraform">>, <<"import">>, address, <<subnet_id, "/", route_table_id>>>>
              ELSE None
  ELSE None

\* import_template.format(address=, id=, arn=, name=), lines 460-465, on the
\* part of the template after the address
Format(import_template, kw) ==
  [i \in DOMAIN import_template |->
     IF import_template[i].kind = "lit" THEN import_template[i].s
     ELSE kw[import_template[i].s]]

\* lines 409-469, on a dict (shape "dict") or on a value that is neither a
\* dict nor an object with the attribute resource_type; arn = None is a
\* dict without the key 'arn'; the result is the command line or None
ManagerGenerateImportCommand(resource_info) ==
  IF resource_info.shape # "dict" THEN None
  ELSE IF resource_info.resource_type = "" \/ resource_info.resource_id = "" THEN None
  ELSE
    LET terraform_type == GetTerraformType(resource_info.resource_type)
        import_template == ImportTemplates(terraform_type)
        resource_id == resource_info.resource_id
        resource_name == IF resource_info.logical_id # ""
                           THEN Lower(resource_info.logical_id)
                           ELSE Lower(resource_id)
        resource_address == <<terraform_type, ".", resource_name>>
        kw == [address |-> resource_address, id |-> resource_id,
               arn |-> IF resource_info.arn # None THEN resource_info.arn ELSE resource_id,
               name |-> resource_id]
    IN
    IF terraform_type = None THEN None
    ELSE IF import_template = <<>> THEN None
    ELSE IF terraform_type \in {"aws_internet_gateway_attachment",
                                "aws_route_table_association"}
      THEN GenerateCompoundImportCommand(terraform_type, resource_info)
    ELSE IF \E i \in DOMAIN import_template :
              /\ import_template[i].kind = "field"
              /\ import_template[i].s \notin DOMAIN kw
      \* except KeyError, lines 467-469
      THEN <<<<"terraform">>, <<"import">>, resource_address, <<resource_id>>>>
    ELSE <<<<"terraform">>, <<"import">>, resource_address, Format(import_template, kw)>>

\* lines 205-218: the header of the script
ScriptHeader ==
  <<<<<<"#!/bin/bash">>>>,
    <<<<"#">>, <<"Terraform">>, <<"Import">>, <<"Script">>>>,
    <<<<"#">>, <<"Generated">>, <<"by">>, <<"CF2TF">>, <<"Converter">>>>,
    <<<<"#">>, <<"Generated">>, <<"on:">>, <<"date">>, <<"time">>>>,
    <<<<>>>>,
    <<<<"set">>, <<"-e">>, <<>>, <<"#">>, <<"Exit">>, <<"on">>, <<"any">>, <<"error">>>>,
    <<<<>>>>,
    <<<<"echo">>, <<"'Starting">>, <<"Terraform">>, <<"import">>, <<"operations...'">>>>,
    <<<<"echo">>, <<"'This">>, <<"may">>, <<"take">>, <<"several">>, <<"minutes">>,
      <<"depending">>, <<"on">>, <<"the">>, <<"number">>, <<"of">>, <<"resources.'">>>>,
    <<<<"echo">>, <<"''">>>>,
    <<<<>>>>>>
\* lines 255-260: its footer
ScriptFooter ==
  <<<<<<"echo">>, <<"'All">>, <<"import">>, <<"operations">>, <<"completed!'">>>>,
    <<<<"echo">>, <<"'Run">>, <<"\"terraform">>, <<"plan\"">>, <<"to">>, <<"verify">>,
      <<"the">>, <<"imported">>, <<"resources.'">>>>,
    <<<<>>>>>>

\* lines 221-246: the lines written for one entry of the dictionary
ResourceLines(resource_id, resource_info) ==
  LET import_cmd == ManagerGenerateImportCommand(resource_info)
  IN IF import_cmd # None
       THEN <<<<<<"#">>, <<"Import">>, <<resource_info.resource_type>>, <<"-">>,
                <<resource_id>>>>,
              <<<<"echo">>, <<"'Importing">>, <<resource_id, "...'">>>>,
              import_cmd,
              <<<<"echo">>, <<"'Import">>, <<"completed">>, <<"successfully'">>>>,
              <<<<"echo">>, <<"''">>>>,
              <<<<>>>>>>
       ELSE <<<<<<"#">>, <<"Skipping">>, <<resource_id>>, <<"-">>, <<"no">>, <<"import">>,
                <<"template">>, <<"available">>>>,
              <<<<"echo">>, <<"'Skipping">>, <<resource_id>>, <<"-">>, <<"unsupported">>,
                <<"resource">>, <<"type'">>>>,
              <<<<>>>>>>

\* the loop of lines 221-253 over the entries, in the dictionary's order
RECURSIVE AllResourceLines(_)
AllResourceLines(rs) ==
  IF rs = <<>> THEN <<>>
  ELSE ResourceLines(rs[1].key, rs[1].info) \o AllResourceLines(Tail(rs))

\* line.strip(): leading and trailing spaces are empty first and last fields
RECURSIVE Strip(_)
Strip(line) ==
  IF Len(line) > 1 /\ line[1] = <<>> THEN Strip(Tail(line))
  ELSE IF Len(line) > 1 /\ line[Len(line)] = <<>> THEN Strip(SubSeq(line, 1, Len(line) - 1))
  ELSE line

\* lines 497-520.  A stripped line starts with 'terraform import ' when its
\* first two fields are these words and a third field follows; then
\* parts = line.split(' ', 3) holds at least three parts, and parts[3] is the
\* rest of the line, its spaces included
RECURSIVE ParseImportScript(_)
ParseImportScript(lines) ==
  IF lines = <<>> THEN <<>>
  ELSE LET line == Strip(lines[1])
       IN (IF Len(line) >= 3 /\ line[1] = <<"terraform">> /\ line[2] = <<"import">>
             THEN <<[command |-> line,
                     address |-> line[3],
                     id |-> IF Len(line) > 3
                              THEN JoinText(SubSeq(line, 4, Len(line)), " ") ELSE <<>>]>>
             ELSE <<>>)
          \o ParseImportScript(Tail(lines))

\* the resources: a value that is no dict, and dicts of every modelled type
\* with or without resource_id and logical_id, with the live properties of
\* the compound types present or not
ResourceInfos ==
  LET LiveValues == [VpcId |-> "vpc-1", InternetGatewayId |-> "igw-1",
                     SubnetId |-> "subnet-1", RouteTableId |-> "rtb-1",
                     DestinationCidrBlock |-> "0.0.0.0/0"]
      LiveKeys(t) ==
        CASE t = "AWS::EC2::VPCGatewayAttachment" -> SUBSET {"VpcId", "InternetGatewayId"}
          [] t = "AWS::EC2::SubnetRouteTableAssociation" -> SUBSET {"SubnetId", "RouteTableId"}
          [] t = "AWS::EC2::Route" -> {{}, {"RouteTableId", "DestinationCidrBlock"}}
          [] OTHER -> {{}}
      LogicalIdOf(t) ==
        CASE t = "AWS::EC2::VPCGatewayAttachment" -> "MyAttachment"
          [] t = "AWS::EC2::SubnetRouteTableAssociation" -> "MyAssociation"
          [] t = "AWS::EC2::Route" -> "MyRoute"
          [] t = "AWS::SNS::Topic" -> "MyTopic"
          [] OTHER -> "MyVPC"
  IN
  {[shape |-> "other", resource_type |-> "", resource_id |-> "", logical_id |-> "",
    arn |-> None, properties |-> <<>>]}
  \cup UNION {[shape : {"dict"}, resource_type : {t}, resource_id : {"", "phys-1"},
               logical_id : {"", LogicalIdOf(t)},
               arn : IF t = "AWS::SNS::Topic" THEN {None, "arn:aws:sns:topic"} ELSE {None},
               properties : {[k \in ks |-> LiveValues[k]] : ks \in LiveKeys(t)}] :
                t \in {"", "AWS::EC2::VPC", "AWS::SNS::Topic", "AWS::EC2::VPCGatewayAttachment",
                       "AWS::EC2::SubnetRouteTableAssociation", "AWS::EC2::Route",
                       "AWS::CloudFormation::Stack", "AWS::Unknown::Resource"}}

\* the lines a script handed to _parse_import_script may hold
ScriptLines ==
  {<<<<"#">>, <<"Import">>, <<"aws_vpc.myvpc">>>>,
   <<<<"echo">>, <<"'terraform">>, <<"import'">>>>,
   <<<<>>>>,
   <<<<"terraform">>, <<"plan">>>>,
   <<<<"terraform">>, <<"import">>, <<"aws_vpc", ".", "myvpc">>, <<"vpc-1">>>>,
   <<<<"terraform">>, <<"import">>, <<"aws_subnet", ".", "mysubnet">>, <<"subnet-1">>>>,
   <<<<>>, <<>>, <<"terraform">>, <<"import">>, <<"aws_vpc", ".", "myvpc">>, <<"vpc-1">>, <<>>>>,
   <<<<"terraform">>, <<"import">>, <<"aws_vpc", ".", "myvpc">>>>,
   <<<<"terraform">>, <<"import">>, <<>>, <<"aws_vpc", ".", "myvpc">>, <<"vpc-1">>>>,
   <<<<"terraform">>, <<"import">>, <<"aws_vpc", ".", "myvpc">>, <<"vpc-1">>, <<"extra">>>>}

\* either a dictionary of resources to write a script for (its keys in
\* order), or a script written by hand that is handed to the parser
InitScript ==
  /\ ImportIdle
  /\ ConvIdle
  /\ ResolveIdle
  /\ CwdIdle
  /\ parsed = <<>>
  /\ \/ /\ \E n \in 0..MaxScriptResources : \E infos \in [1..n -> ResourceInfos] :
             resources = [i \in 1..n |->
                            [key |-> <<"res-a", "res-b", "res-c", "res-d">>[i],
                             info |-> infos[i]]]
        /\ script = <<>>
        /\ spc = "generate"
     \/ /\ resources = <<>>
        /\ \E n \in 0..MaxScriptLines : script \in [1..n -> ScriptLines]
        /\ spc = "written"

\* generate_import_script, lines 188-270
GenerateImportScript ==
  /\ spc = "generate"
  /\ script' = ScriptHeader \o AllResourceLines(resources) \o ScriptFooter
  /\ spc' = "written"
  /\ UNCHANGED <<importVars, convVars, resolveVars, cwdVars>>
  /\ UNCHANGED <<resources, parsed>>

\* import_commands = self._parse_import_script(script_path), line 296
ParseScript ==
  /\ spc = "written"
  /\ parsed' = ParseImportScript(script)
  /\ spc' = "parsed"
  /\ UNCHANGED <<importVars, convVars, resolveVars, cwdVars>>
  /\ UNCHANGED <<resources, script>>

NextScript ==
  \/ GenerateImportScript
  \/ ParseScript

SpecScript == InitScript /\ [][NextScript]_vars

\* ------------------------------------------ _execute_terraform_command
\* A batch of cwd_todo calls of _execute_terraform_command: the calls of one
\* thread in sequential mode (a retry is one more call), those of the pool
\* threads in parallel mode.  os.getcwd, os.chdir and the launch of the child
\* process are system calls on the one working directory of the process, so
\* the threads interleave between them.
InitCwd ==
  /\ ImportIdle
  /\ ConvIdle
  /\ ResolveIdle
  /\ ScriptIdle
  /\ start_cwd \in {"caller_dir", "terraform_dir"}
  /\ os_cwd = start_cwd
  /\ cwd_parallel \in BOOLEAN
  /\ \E n \in 1..MaxThreads :
        /\ cwd_parallel \/ n = 1
        /\ cwd_threads = [t \in 1..n |-> [pc |-> "idle", original_cwd |-> "unset"]]
  /\ cwd_calls = <<>>
  /\ cwd_todo \in 1..MaxCalls
  \* lines 299-304: the parallel executor is taken for more than one command
  /\ cwd_parallel => cwd_todo > 1

\* line 622: original_cwd = os.getcwd()
GetCwd(t) ==
  /\ cwd_threads[t].pc = "idle"
  /\ cwd_todo > 0
  /\ cwd_todo' = cwd_todo - 1
  /\ cwd_threads' = [cwd_threads EXCEPT ![t] = [pc |-> "chdir", original_cwd |-> os_cwd]]
  /\ UNCHANGED <<importVars, convVars, resolveVars, scriptVars>>
  /\ UNCHANGED <<os_cwd, start_cwd, cwd_parallel, cwd_calls>>

\* line 623: os.chdir(self.terraform_dir)
ChdirTerraformDir(t) ==
  /\ cwd_threads[t].pc = "chdir"
  /\ os_cwd' = "terraform_dir"
  /\ cwd_threads' = [cwd_threads EXCEPT ![t].pc = "run"]
  /\ UNCHANGED <<importVars, convVars, resolveVars, scriptVars>>
  /\ UNCHANGED <<start_cwd, cwd_parallel, cwd_calls, cwd_todo>>

\* lines 626-631: subprocess.run starts the child in the working directory
\* the process has at that moment; whether it returns or raises, the finally
\* clause is next
RunCommand(t) ==
  /\ cwd_threads[t].pc = "run"
  /\ cwd_calls' = Append(cwd_calls, os_cwd)
  /\ cwd_threads' = [cwd_threads EXCEPT ![t].pc = "finally"]
  /\ UNCHANGED <<importVars, convVars, resolveVars, scriptVars>>
  /\ UNCHANGED <<os_cwd, start_cwd, cwd_parallel, cwd_todo>>

\* lines 648-650: os.chdir(original_cwd)
RestoreCwd(t) ==
  /\ cwd_threads[t].pc = "finally"
  /\ os_cwd' = cwd_threads[t].original_cwd
  /\ cwd_threads' = [cwd_threads EXCEPT ![t] = [pc |-> "idle", original_cwd |-> "unset"]]
  /\ UNCHANGED <<importVars, convVars, resolveVars, scriptVars>>
  /\ UNCHANGED <<start_cwd, cwd_parallel, cwd_calls, cwd_todo>>

NextCwd ==
  \/ \E t \in DOMAIN cwd_threads : GetCwd(t)
  \/ \E t \in DOMAIN cwd_threads : ChdirTerraformDir(t)
  \/ \E t \in DOMAIN cwd_threads : RunCommand(t)
  \/ \E t \in DOMAIN cwd_threads : RestoreCwd(t)

SpecCwd == InitCwd /\ [][NextCwd]_vars

NextConvert ==
  \/ ConvertParameters
  \/ ConvertMappings
  \/ ConvertConditions
  \/ ConvertNextResource
  \/ FinishResources
  \/ ConvertOutputs
  \/ Finalize

SpecConvert == InitConvert /\ [][NextConvert]_vars


NextImport ==
  \/ ImportManagerInit
  \/ BatchTimeoutExpires
  \/ CreateStateBackup
  \/ SkipStateBackup
  \/ Dispatch
  \/ SeqFirstAttempt
  \/ SeqRetry
  \/ SeqReturn
  \/ \E w \in DOMAIN workers : WorkerStart(w)
  \/ \E w \in DOMAIN workers : WorkerFinish(w)
  \/ Collect
  \/ ParReturn

SpecImport == InitImport /\ [][NextImport]_vars

\* ================================================================ claims
Returned == pc = "returned"
AddressOf(i) == import_commands[i].address
\* the results recorded for command i, in list order
AttemptsOf(i) ==
  SelectSeq(summary.results, LAMBDA r : r.resource_address = AddressOf(i))
Succeeded(i) == \E k \in DOMAIN summary.results :
  summary.results[k].resource_address = AddressOf(i) /\ summary.results[k].success
IsPrefix(s, t) == Len(s) <= Len(t) /\ \A k \in DOMAIN s : s[k] = t[k]

\* C1: with retry_failed a command that keeps failing is attempted with retry
\* counts 0..max_retries (1 + max_retries attempts) before it is left failed,
\* never more; without retries every command is attempted exactly once.
C1_RetryUntilExhausted ==
  Returned =>
    \A i \in CmdIdx :
      LET a == AttemptsOf(i)
          limit == IF manager.retry_failed THEN 1 + manager.max_retries ELSE 1 IN
        /\ Len(a) = tries[i]
        /\ Len(a) >= 1 /\ Len(a) <= limit
        /\ \A k \in DOMAIN a : a[k].retry_count = k - 1
        /\ (~Succeeded(i)) => Len(a) = limit

\* C2: scenario D, 3 commands, 2 workers, parallel, max_retries = 2, one
\* command failing twice then succeeding: successful_imports = 3 and the flaky
\* address has results failure, failure, success with retry counts 0, 1, 2.
ScenarioD(f) ==
  /\ manager.parallel /\ manager.max_workers = 2
  /\ manager.retry_failed /\ manager.max_retries = 2
  /\ NumCmds = 3
  /\ failPlan = [i \in 1..3 |-> IF i = f THEN 2 ELSE 0]

C2_ScenarioDSucceeds ==
  \A f \in 1..3 :
    (Returned /\ ScenarioD(f)) =>
      /\ summary.successful_imports = 3
      /\ Len(AttemptsOf(f)) = 3
      /\ \A k \in 1..3 : /\ AttemptsOf(f)[k].retry_count = k - 1
                         /\ AttemptsOf(f)[k].success = (k = 3)

\* C3: the returned summary holds, for every parsed command, a result with
\* that command's address and identifier, in both modes, for every outcome
\* and every completion order.
C3_ResultForEveryCommand ==
  Returned =>
    \A i \in CmdIdx :
      \E k \in DOMAIN summary.results :
        /\ summary.results[k].resource_address = import_commands[i].address
        /\ summary.results[k].resource_id = import_commands[i].id

C3_Witness ==
  /\ Returned /\ manager.parallel /\ NumCmds = 3
  /\ summary.results[1].resource_address = AddressOf(3)
  /\ \E k \in DOMAIN summary.results :
       summary.results[k].error_message = "Command timed out"

\* C4: the result list is append-only; a retry is a new result placed after
\* the previous attempt of its address with a retry count one higher;
\* successful_imports counts exactly the addresses with a successful attempt,
\* and an address whose retry succeeded is not counted as failed.
PreviousAttempt(k) ==
  LET earlier == {j \in 1..(k - 1) :
        summary.results[j].resource_address = summary.results[k].resource_address}
  IN IF earlier = {} THEN 0 ELSE CHOOSE j \in earlier : \A h \in earlier : h <= j

RetryFollowsAttempt ==
  \A k \in DOMAIN summary.results :
    IF PreviousAttempt(k) = 0
      THEN summary.results[k].retry_count = 0
      ELSE /\ summary.results[k].retry_count =
                summary.results[PreviousAttempt(k)].retry_count + 1
           /\ ~summary.results[PreviousAttempt(k)].success

CountsFollowResults ==
  /\ summary.successful_imports = Cardinality({i \in CmdIdx : Succeeded(i)})
  /\ summary.failed_imports =
       Cardinality({k \in DOMAIN summary.results :
          \E i \in CmdIdx : /\ summary.results[k].resource_address = AddressOf(i)
                            /\ ~Succeeded(i)})

C4_AppendOnlyResults ==
  /\ [](RetryFollowsAttempt /\ CountsFollowResults)
  /\ [][IsPrefix(summary.results, summary.results')]_vars

C4_Witness ==
  /\ Returned /\ ~manager.parallel /\ NumCmds = 2
  /\ Len(AttemptsOf(1)) = 2
  /\ ~AttemptsOf(1)[1].success /\ AttemptsOf(1)[2].success
  /\ AttemptsOf(1)[2].retry_count = 1
  /\ summary.failed_imports = 0 /\ summary.successful_imports = 2

\* C5: with create_backup every run has copied the existing state files
\* before its first import command is launched; no command is launched while
\* the backup step has not finished; without create_backup nothing is copied.
Launched == \E i \in CmdIdx : tries[i] > 0

C5_BackupBeforeFirstImport ==
  /\ Launched => pc \in {"sequential", "parallel", "returned"}
  /\ (Launched /\ manager.create_backup) => backup_files = state_files
  /\ ~manager.create_backup => backup_files = {}

C5_Witness ==
  /\ manager.create_backup /\ state_files = StateFiles
  /\ backup_files = StateFiles
  /\ Launched /\ pc = "parallel"

\* C6: a failing state backup never aborts the batch: execute_import_script
\* does not end by raising the backup's exception.
C6_BackupFailureDoesNotAbort == pc # "raised"

\* ---------------------------------------------------- conversion claims
Converted == cpc = "done"
LoopDone == "resource" \in result.terraform_config.keys
ResIdx == DOMAIN template.Resources
IdOf(k) == template.Resources[k].logical_id
ConfigOf(k) == template.Resources[k].config
Mapped(k) == ConfigOf(k).shape = "mapping" /\ ConfigOf(k).Type # None
             /\ GetTerraformType(ConfigOf(k).Type) # None
Unmapped(k) == ConfigOf(k).shape = "mapping" /\ ConfigOf(k).Type # None
               /\ GetTerraformType(ConfigOf(k).Type) = None
\* the inputs on which converting the resource raises
RaisesOn(k) == \/ ConfigOf(k).shape = "notmapping"
               \/ Mapped(k) /\ ConfigOf(k).Properties = "notmapping"
SectionNames == {"Parameters", "Mappings", "Conditions", "Outputs"}
ErrorsNaming(ref) == {j \in DOMAIN result.errors : result.errors[j].ref = ref}
WarningsNaming(ref) == {j \in DOMAIN result.warnings : result.warnings[j].ref = ref}

\* C7: a failure inside one phase is recorded as an error and the other
\* phases still run: whatever section is malformed, the result of a finished
\* call holds the resources section, and the variables, locals and outputs of
\* every well-formed section.
C7_PhaseFailureIsolated ==
  Converted =>
    /\ LoopDone
    /\ ((\E sec \in SectionNames : template[sec].malformed) => result.errors # <<>>)
    /\ (~template.Parameters.malformed =>
          result.variables = {Lower(p) : p \in template.Parameters.names})
    /\ (~template.Mappings.malformed =>
          {Lower(m) : m \in template.Mappings.names} \subseteq result.locals)
    /\ (~template.Conditions.malformed =>
          {Lower(c) : c \in template.Conditions.names} \subseteq result.locals)
    /\ (~template.Outputs.malformed =>
          result.outputs = {Lower(o) : o \in template.Outputs.names})

\* C8: when converting a resource raises, exactly one error naming its
\* logical id is recorded, and every other resource is still converted,
\* wherever the failing resource stands in the template.
LoopReached ==
  \A sec \in {"Parameters", "Mappings", "Conditions"} : ~template[sec].malformed

C8_ResourceFailureIsolated ==
  (Converted /\ LoopReached) =>
    /\ \A k \in ResIdx :
         IF RaisesOn(k)
           THEN /\ Cardinality(ErrorsNaming(IdOf(k))) = 1
                /\ \A j \in ErrorsNaming(IdOf(k)) :
                     result.errors[j].msg = "Failed to convert resource"
           ELSE /\ ErrorsNaming(IdOf(k)) = {}
                /\ (Mapped(k) /\ GetTerraformType(ConfigOf(k).Type) \in ConverterImportTypes)
                     => \E c \in DOMAIN result.import_commands :
                          result.import_commands[c].address =
                            <<GetTerraformType(ConfigOf(k).Type), ResourceName(IdOf(k))>>
    /\ converted = SelectSeq([k \in ResIdx |-> IdOf(k)],
                             LAMBDA id : \E k \in ResIdx :
                                /\ IdOf(k) = id /\ ~RaisesOn(k)
                                /\ ConfigOf(k).Type # None)

C8_Witness ==
  /\ Converted /\ Len(template.Resources) = 3
  /\ RaisesOn(2) /\ ~RaisesOn(1) /\ ~RaisesOn(3)
  /\ ConfigOf(1).Type = "AWS::EC2::VPC" /\ ConfigOf(3).Type = "AWS::EC2::VPC"
  /\ converted = <<IdOf(1), IdOf(3)>>
  /\ Len(result.errors) = 1 /\ result.errors[1].ref = IdOf(2)
  /\ Len(result.import_commands) = 2

\* C9: every resource with a mapped source type (nested stacks aside) whose
\* conversion did not raise is declared under its target type, also when
\* several resources map to the same target type: as many declared instances
\* as such resources, for logical names distinct after lower-casing.
Declarable == {k \in ResIdx : Mapped(k) /\ ~RaisesOn(k)
                 /\ ConfigOf(k).Type # "AWS::CloudFormation::Stack"}
LowerDistinct ==
  \A j, k \in ResIdx : j # k => Lower(IdOf(j)) # Lower(IdOf(k))
Declared == {e \in result.terraform_config.resource : e.type # "module"}

C9_AllMappedResourcesDeclared ==
  (LoopDone /\ LowerDistinct) =>
    /\ \A k \in Declarable :
         \E e \in Declared : /\ e.type = GetTerraformType(ConfigOf(k).Type)
                             /\ e.from = IdOf(k)
    /\ Cardinality(Declared) = Cardinality(Declarable)

\* C10: a resource whose source type has no target mapping is left out of
\* the output resources, gets no import command and no error, and exactly one
\* warning that references its logical name.
C10_UnsupportedResourceWarned ==
  LoopDone =>
    \A k \in ResIdx :
      Unmapped(k) =>
        /\ \A e \in result.terraform_config.resource : e.from # IdOf(k)
        /\ \A c \in DOMAIN result.import_commands :
             result.import_commands[c].address[2] # ResourceName(IdOf(k))
        /\ ErrorsNaming(IdOf(k)) = {}
        /\ Cardinality(WarningsNaming(IdOf(k))) = 1

\* C11: when terraform_dir does not exist at construction, construction
\* raises: the manager never gets past its constructor, no import command is
\* launched and no backup is attempted.
C11_MissingDirFailsConstruction ==
  ~terraform_dir_exists =>
    /\ pc \in {"new", "init_raised"}
    /\ \A i \in CmdIdx : tries[i] = 0
    /\ backup_files = {}
    /\ summary = EmptySummary(0)
C11_Witness == ~terraform_dir_exists /\ pc = "init_raised" /\ manager.create_backup

\* C12: when launches fail by running into the per-command timeout, the
\* command gets a failed result whose error_message names the timeout (a
\* text no non-zero exit produces), the failure is counted in failed_imports,
\* and every other command of the batch is still launched.
TimedOut(r) ==
  /\ ~r.success
  /\ r.error_message = "Command timed out"
  /\ r.error_message # ErrorMessage("nonzero")
NeverSucceeded == {i \in CmdIdx : ~Succeeded(i)}

C12_TimeoutIsFailedResult ==
  (Returned /\ failKind = "timeout") =>
    /\ \A i \in CmdIdx : tries[i] >= 1
    /\ \A i \in CmdIdx :
         failPlan[i] >= 1 =>
           \E k \in DOMAIN AttemptsOf(i) : TimedOut(AttemptsOf(i)[k])
    /\ \A k \in DOMAIN summary.results :
         ~summary.results[k].success => TimedOut(summary.results[k])
    /\ Cardinality(NeverSucceeded) <= summary.failed_imports
    /\ summary.errors = <<>>
C12_Witness ==
  /\ Returned /\ failKind = "timeout"
  /\ NumCmds >= 2
  /\ failPlan[1] >= 1 /\ ~Succeeded(1)
  /\ Succeeded(2)

\* C13: once the overall batch timeout supplied by the caller has expired, no
\* command that has not been launched yet is started (commands already
\* launched may finish or be retried).
C13_NoStartAfterBatchTimeout ==
  [][batch_expired => \A i \in CmdIdx : tries[i] = 0 => tries'[i] = 0]_vars

\* no section of the template is malformed
SectionsConvert == \A sec \in SectionNames : ~template[sec].malformed
\* the template holds one resource, a VPC whose Properties are the mapping p
OnlyVpcWith(p) ==
  /\ Len(template.Resources) = 1
  /\ ConfigOf(1) = [shape |-> "mapping", Type |-> "AWS::EC2::VPC",
                    Properties |-> "mapping", props |-> p]
CidrLiteral == MapNode(<<Entry("CidrBlock", Str("10.0.0.0/16"))>>)
CidrUndeclaredRef ==
  MapNode(<<Entry("CidrBlock", MapNode(<<Entry("Ref", Str("Undeclared"))>>))>>)

\* C14: a template (with no malformed section) with a VPC with
\* CidrBlock = "10.0.0.0/16" as its only resource converts to exactly one
\* resource, of type aws_vpc, with cidr_block = "10.0.0.0/16", and to exactly
\* one import command, whose address is that resource's type and name.
C14_SingleVpcConverted ==
  (Converted /\ SectionsConvert /\ OnlyVpcWith(CidrLiteral)) =>
    /\ Cardinality(result.terraform_config.resource) = 1
    /\ Len(result.import_commands) = 1
    /\ \A e \in result.terraform_config.resource :
         /\ e.type = "aws_vpc"
         /\ e.from = IdOf(1)
         /\ Keys(e.properties) = {"cidr_block"}
         /\ DictGet(e.properties, "cidr_block") = Str("10.0.0.0/16")
         /\ result.import_commands[1].address = <<e.type, e.name>>
C14_Witness ==
  /\ Converted /\ SectionsConvert /\ OnlyVpcWith(CidrLiteral)
  /\ IdOf(1) = "MyVPC"
  /\ ~engine.preserve_names
  /\ result.import_commands = <<[address |-> <<"aws_vpc", "my_vpc">>, id |-> "PHYSICAL_ID"]>>

\* C15: a template whose only resource gives a property by a Ref to a name
\* that is no parameter, no resource and no pseudo parameter converts to a
\* resource whose property is the unresolved marker holding that name, and
\* the result carries exactly one warning.
C15_UndeclaredRefMarkedAndWarned ==
  (Converted /\ SectionsConvert /\ engine.handle_functions
   /\ OnlyVpcWith(CidrUndeclaredRef)) =>
    /\ Cardinality(result.terraform_config.resource) = 1
    /\ \A e \in result.terraform_config.resource :
         /\ DictHas(e.properties, "cidr_block")
         /\ DictGet(e.properties, "cidr_block") =
              TextNode(<<"# TODO: Resolve reference to ", "Undeclared">>)
    /\ Len(result.warnings) = 1

\* ------------------------------------------------------- resolver claims
Resolved == rpc = "done"
IsCallOf(e, f) == IsMap(e) /\ Len(e.items) = 1 /\ Key(e.items[1]) = f
ArgOf(e) == Val(e.items[1])
\* the ten function names the specification reserves
ReservedNames ==
  {"Ref", "Fn::GetAtt", "Fn::Join", "Fn::Sub", "Fn::Select", "Fn::Split", "Fn::Base64",
   "Fn::GetAZs", "Fn::FindInMap", "Fn::If"}

\* C16: in an Fn::Sub call every ${name} is replaced by the first applicable
\* of: the entry for name in the substitution map (resolved), a recognized
\* pseudo parameter, a declared parameter, a reference to a resource of the
\* template, and is left verbatim otherwise.  Stated for the calls on
\* "prefix-${name}-suffix", in the string form and in the form with a map
\* whose entries resolve.
SubTemplate(e) == IF IsStr(ArgOf(e)) THEN ArgOf(e) ELSE ArgOf(e).items[1]
SubVariables(e) == IF IsStr(ArgOf(e)) THEN MapNode(<<>>) ELSE ArgOf(e).items[2]
SubEntries(e) ==
  ProcessAll(func_handler, context,
             [i \in DOMAIN SubVariables(e).items |-> Val(SubVariables(e).items[i])])
OnePlaceholderSub(e) ==
  /\ IsCallOf(e, "Fn::Sub")
  /\ IsStr(ArgOf(e)) \/ (IsList(ArgOf(e)) /\ Len(ArgOf(e).items) = 2)
  /\ \E n \in SubNames : SubTemplate(e) = Placeholder(n)
  /\ IsMap(SubVariables(e))
  /\ ~SubEntries(e).raised
PlaceholderName(e) == SubTemplate(e).s[3]
FirstApplicable(e) ==
  LET n == PlaceholderName(e) IN
    IF n \in Keys(SubVariables(e))
      THEN StrOf(SubEntries(e).value.items[
                   CHOOSE i \in DOMAIN SubVariables(e).items :
                     Key(SubVariables(e).items[i]) = n])
    ELSE IF RefPseudoParams(n) # None THEN <<RefPseudoParams(n)>>
    ELSE IF n \in func_handler.parameters THEN <<"var.", Lower(n)>>
    ELSE IF IsResource(context, Str(n)) THEN HandleRef(func_handler, context, Str(n)).value.s
    ELSE <<n>>

C16_SubPriority ==
  (Resolved /\ OnePlaceholderSub(expression)) =>
    /\ ~resolved.raised
    /\ resolved.value =
         TextNode(<<"\"", "prefix-">>
                  \o <<"${">> \o FirstApplicable(expression) \o <<"}">>
                  \o <<"-suffix", "\"">>)

\* C17: process_value keeps the structure of every value that is not a
\* function call (a scalar is returned as it is, a list keeps its length and
\* order, a mapping its keys, children are resolved), and a single-key
\* mapping is a function call only when its key is a reserved name.
IsReservedCall(e) == IsMap(e) /\ Len(e.items) = 1 /\ Key(e.items[1]) \in ReservedNames
ChildResolved(child, out) ==
  LET r == ProcessValue(func_handler, context, child) IN ~r.raised /\ r.value = out

C17_StructurePreserved ==
  (Resolved /\ ~IsReservedCall(expression)) =>
    /\ ~resolved.raised
    /\ resolved.value.kind = expression.kind
    /\ expression.kind \in {"str", "int"} => resolved.value = expression
    /\ Len(resolved.value.items) = Len(expression.items)
    /\ IsList(expression) =>
         \A i \in DOMAIN expression.items :
           ChildResolved(expression.items[i], resolved.value.items[i])
    /\ IsMap(expression) =>
         \A i \in DOMAIN expression.items :
           /\ Key(resolved.value.items[i]) = Key(expression.items[i])
           /\ ChildResolved(Val(expression.items[i]), Val(resolved.value.items[i]))

\* C18: the resolver never raises on a function call: a function name
\* without a handler gives a marker holding the name and the raw arguments,
\* a known function with the wrong number or shape of arguments gives an
\* unresolved marker, and each case comes with a warning.
IsAnyCall(e) ==
  IsMap(e) /\ Len(e.items) = 1 /\ (Key(e.items[1]) = "Ref" \/ StartsWithFn(Key(e.items[1])))
Unrecognized(e) == IsAnyCall(e) /\ Key(e.items[1]) \notin ReservedNames
WrongArity(e) ==
  \/ /\ \E f \in {"Fn::GetAtt", "Fn::Join", "Fn::Select", "Fn::Split"} : IsCallOf(e, f)
     /\ ~(IsList(ArgOf(e)) /\ Len(ArgOf(e).items) = 2)
  \/ /\ \E f \in {"Fn::FindInMap", "Fn::If"} : IsCallOf(e, f)
     /\ ~(IsList(ArgOf(e)) /\ Len(ArgOf(e).items) = 3)
  \/ /\ IsCallOf(e, "Fn::Sub")
     /\ ~(IsStr(ArgOf(e)) \/ (IsList(ArgOf(e)) /\ Len(ArgOf(e).items) = 2))
IsMarker(v) ==
  /\ IsStr(v) /\ v.s # <<>>
  /\ v.s[1] \in {"# TODO: Invalid GetAtt arguments: ", "# TODO: Invalid Join arguments: ",
                 "# TODO: Invalid Sub arguments: ", "# TODO: Invalid Select arguments: ",
                 "# TODO: Invalid Split arguments: ", "# TODO: Invalid FindInMap arguments: ",
                 "# TODO: Invalid If arguments: ", "# TODO: GetAtt ",
                 "# TODO: Resolve reference to "}

C18_ResolverNeverRaises ==
  (Resolved /\ IsAnyCall(expression)) =>
    /\ ~resolved.raised
    /\ Unrecognized(expression) =>
         /\ resolved.value = TextNode(<<"# TODO: Convert ", Key(expression.items[1]), "(">>
                                      \o StrOf(ArgOf(expression)) \o <<")">>)
         /\ resolved.logged >= 1
    /\ WrongArity(expression) =>
         /\ IsMarker(resolved.value)
         /\ resolved.logged >= 1

\* C19: Fn::GetAtt [R, A] with R a resource of the template whose type has a
\* target type resolves to <target type>.<lower-cased R>.<attr>, attr being
\* the rename of A for the type of R; the unresolved marker is only given for
\* an unknown resource or a wrong number of arguments.
GetAttOnMapped(e) ==
  /\ IsCallOf(e, "Fn::GetAtt")
  /\ IsList(ArgOf(e)) /\ Len(ArgOf(e).items) = 2
  /\ IsStr(ArgOf(e).items[1]) /\ IsStr(ArgOf(e).items[2])
  /\ IsResource(context, ArgOf(e).items[1])
  /\ ResourceInfo(context, ArgOf(e).items[1]).shape = "mapping"
  /\ GetTerraformType(TypeOf(ResourceInfo(context, ArgOf(e).items[1]))) # None

C19_GetAttResolved ==
  (Resolved /\ GetAttOnMapped(expression)) =>
    LET R == NameOf(ArgOf(expression).items[1])
        A == NameOf(ArgOf(expression).items[2])
        cf_type == TypeOf(ResourceInfo(context, ArgOf(expression).items[1]))
    IN /\ ~resolved.raised
       /\ resolved.value =
            TextNode(<<GetTerraformType(cf_type), ".", Lower(R), ".",
                       AttributeMappings(cf_type, A)>>)

\* C20: Fn::FindInMap [M, k1, k2] gives the quoted literal Mappings[M][k1][k2]
\* exactly when M is a table of the template and both keys are literal
\* strings found in it; in every other case it gives a lookup on the local
\* named after M, and it does not raise.
FindInMapOnName(e) ==
  /\ IsCallOf(e, "Fn::FindInMap")
  /\ IsList(ArgOf(e)) /\ Len(ArgOf(e).items) = 3
  /\ IsStr(ArgOf(e).items[1])
StaticKeys(e) ==
  LET M == NameOf(ArgOf(e).items[1])
      k1 == ArgOf(e).items[2]
      k2 == ArgOf(e).items[3]
  IN /\ DictHas(func_handler.mappings, M)
     /\ IsStr(k1) /\ IsStr(k2)
     /\ DictHas(DictGet(func_handler.mappings, M), NameOf(k1))
     /\ DictHas(DictGet(DictGet(func_handler.mappings, M), NameOf(k1)), NameOf(k2))

C20_FindInMapStaticOrLookup ==
  (Resolved /\ FindInMapOnName(expression)) =>
    LET M == NameOf(ArgOf(expression).items[1])
        k1 == ArgOf(expression).items[2]
        k2 == ArgOf(expression).items[3]
    IN /\ ~resolved.raised
       /\ IF StaticKeys(expression)
            THEN resolved.value =
                   TextNode(<<"\"">>
                            \o StrOf(DictGet(DictGet(DictGet(func_handler.mappings, M),
                                                     NameOf(k1)), NameOf(k2)))
                            \o <<"\"">>)
            ELSE /\ Len(resolved.value.s) >= 3
                 /\ SubSeq(resolved.value.s, 1, 3) = <<"local.", Lower(M), "[">>

\* C26: when _execute_sequential_imports or _execute_parallel_imports has
\* returned, successful_imports + failed_imports = total_imports: every
\* submitted command is counted exactly once, whatever its attempts were.
C26_CountsAddUp ==
  Returned =>
    summary.successful_imports + summary.failed_imports = summary.total_imports

\* C27: in parallel mode, under every interleaving of the threads' steps in
\* _execute_terraform_command, every import command is launched while the
\* working directory of the process is the terraform directory.
C27_LaunchedInTerraformDir ==
  cwd_parallel => \A k \in DOMAIN cwd_calls : cwd_calls[k] = "terraform_dir"

\* C28: after a batch has finished, in sequential mode and in parallel mode
\* under every interleaving, the working directory of the process is again
\* the one that was current before the batch started.
BatchFinished ==
  /\ cwd_threads # <<>>
  /\ cwd_todo = 0
  /\ \A t \in DOMAIN cwd_threads : cwd_threads[t].pc = "idle"
C28_CwdRestored == BatchFinished => os_cwd = start_cwd

\* ---------------------------------------------------- conversion claims
\* the resource entry of the template a declared resource was converted from
SourceOf(e) == ConfigOf(CHOOSE k \in ResIdx : IdOf(k) = e.from)

\* C22: every import command the system returns carries the words
\* 'terraform import', a resource address and an identifier, and holds no
\* unfilled placeholder such as PHYSICAL_ID.  Stated for the commands of
\* convert_template.
PlaceholderTokens == {"PHYSICAL_ID", "{id}", "{arn}", "{name}", "{address}"}
C22_NoPlaceholderInCommands ==
  Converted =>
    \A k \in DOMAIN result.import_commands :
      /\ Len(result.import_commands[k].address) = 2
      /\ result.import_commands[k].id \notin PlaceholderTokens

\* C23: a security group ingress or egress rule with IpProtocol, FromPort,
\* ToPort and CidrIp is declared with protocol, from_port, to_port,
\* cidr_blocks = [CidrIp] and type = 'ingress' or 'egress' after its source
\* type.
FullRule ==
  MapNode(<<Entry("IpProtocol", Str("tcp")), Entry("FromPort", IntNode("80")),
            Entry("ToPort", IntNode("443")), Entry("CidrIp", Str("0.0.0.0/0"))>>)
C23_RuleFlattened ==
  (Converted /\ SectionsConvert) =>
    \A e \in result.terraform_config.resource :
      (e.type = "aws_security_group_rule" /\ SourceOf(e).props = FullRule) =>
        /\ Keys(e.properties) = {"protocol", "from_port", "to_port", "cidr_blocks", "type"}
        /\ DictGet(e.properties, "protocol") = Str("tcp")
        /\ DictGet(e.properties, "from_port") = IntNode("80")
        /\ DictGet(e.properties, "to_port") = IntNode("443")
        /\ DictGet(e.properties, "cidr_blocks") = ListNode(<<Str("0.0.0.0/0")>>)
        /\ DictGet(e.properties, "type") =
             Str(IF SourceOf(e).Type = "AWS::EC2::SecurityGroupIngress"
                   THEN "ingress" ELSE "egress")

\* C24: with preserve_names a converted resource is declared under its
\* logical id, unchanged, and a Ref to it uses that same name.
C24_NamesPreserved ==
  (Converted /\ SectionsConvert /\ engine.preserve_names) =>
    \A e \in result.terraform_config.resource :
      e.type # "module" =>
        /\ e.name = e.from
        /\ LET ref == HandleRef(FuncHandlerOf(template), ContextOf(template), Str(e.from))
           IN ~ref.raised /\ ref.value = TextNode(<<e.type, ".", e.from, ".id">>)

\* C30: for a condition C of the Conditions section, the expression given
\* for Fn::If [C, a, b] refers to the local the Conditions phase declares for
\* C, so that a conditional expression of the output refers to a declared
\* symbol only.
CidrConditional ==
  MapNode(<<Entry("CidrBlock",
                  MapNode(<<Entry("Fn::If", ListNode(<<Str("IsProd"), Str("10.0.0.0/16"),
                                                       Str("10.1.0.0/16")>>))>>))>>)
C30_ConditionSymbolDeclared ==
  (Converted /\ SectionsConvert /\ engine.handle_functions
   /\ template.Conditions.names = {"IsProd"}) =>
    \A e \in result.terraform_config.resource :
      (e.type = "aws_vpc" /\ SourceOf(e).props = CidrConditional) =>
        LET text == DictGet(e.properties, "cidr_block").s IN
          /\ "isprod" \in result.locals
          /\ SubSeq(text, 1, 2) = <<"local.", "isprod">>

\* The script has been generated from the resources.
ScriptGenerated == spc # "generate" /\ resources # <<>>

\* the import command the script holds for the dictionary key k: the line
\* written after the line  echo 'Importing k...'
HasCommand(k) ==
  \E i \in DOMAIN script : script[i] = <<<<"echo">>, <<"'Importing">>, <<k, "...'">>>>
CommandOf(k) ==
  script[1 + CHOOSE i \in DOMAIN script :
               script[i] = <<<<"echo">>, <<"'Importing">>, <<k, "...'">>>>]

\* the live attributes the identifier of a composite-key type is made of
RequiredAttributes(terraform_type) ==
  CASE terraform_type = "aws_internet_gateway_attachment" -> {"VpcId", "InternetGatewayId"}
    [] terraform_type = "aws_route_table_association" -> {"SubnetId", "RouteTableId"}
    [] terraform_type = "aws_route" -> {"RouteTableId", "DestinationCidrBlock"}
    [] OTHER -> {}
MissingAttribute(info) ==
  /\ info.shape = "dict"
  /\ info.resource_type # ""
  /\ RequiredAttributes(GetTerraformType(info.resource_type)) # {}
  /\ ~(RequiredAttributes(GetTerraformType(info.resource_type))
         \subseteq DOMAIN info.properties)

\* C21: a resource of a composite-key type with a required live attribute
\* missing gets no import command in the generated script.
C21_NoCommandWithoutAttribute ==
  ScriptGenerated =>
    \A i \in DOMAIN resources :
      MissingAttribute(resources[i].info) => ~HasCommand(resources[i].key)

\* A stripped line that is 'terraform import', one address token and one
\* identifier token, both non-empty.
IsImportCommand(line) ==
  /\ Len(line) = 4
  /\ line[1] = <<"terraform">>
  /\ line[2] = <<"import">>
  /\ line[3] # <<>>
  /\ line[4] # <<>>
StrippedLines == [i \in DOMAIN script |-> Strip(script[i])]

\* C25: the parsed commands are the lines of the script that are
\* 'terraform import <address> <identifier>', in script order, each with its
\* address token and its identifier token; no other line gives a command.
C25_ParsedCommands ==
  spc = "parsed" =>
    /\ [k \in DOMAIN parsed |-> parsed[k].command] = SelectSeq(StrippedLines, IsImportCommand)
    /\ \A k \in DOMAIN parsed :
         /\ parsed[k].address = parsed[k].command[3]
         /\ parsed[k].id = parsed[k].command[4]

\* C29: the import command of a resource with a logical name has the address
\* <target type>.<lowercased logical name>, the address under which the
\* converter declares the resource (ResourceName with preserve_names).
C29_AddressIsConverterAddress ==
  ScriptGenerated =>
    \A i \in DOMAIN resources :
      (HasCommand(resources[i].key) /\ resources[i].info.logical_id # "") =>
        CommandOf(resources[i].key)[3] =
          <<GetTerraformType(resources[i].info.resource_type), ".",
            Lower(resources[i].info.logical_id)>>

====
